---- MODULE Spec2Model ----
(***************************************************************************)
(* A model of the interaction core of gpui3's Div element                  *)
(* (crates/gpui3/src/elements/div.rs): the click / drag / drop state       *)
(* machine bound by Interactivity::paint_mouse_listeners, the per-frame    *)
(* reset in Interactivity::request_layout, and the scroll-offset clamp of  *)
(* Interactivity::clamp_scroll_position.                                   *)
(*                                                                         *)
(* Spec       : mouse events and frames over a small scene of elements.    *)
(* SpecScroll : scroll offsets, resizes and prepaint clamps.               *)
(* SpecHandle : the ScrollHandle: scroll-to-child requests and queries.    *)
(* SpecTooltip: the tooltip slot of one element under events and time.     *)
(* SpecGroups : the paint pass over trees with named hitbox groups.        *)
(* SpecHover  : the hover boolean and hover listener of one element.       *)
(* SpecListeners: paints of one configuration and the closures they bind.  *)
(* SpecBindings : registering hover, tooltip and drag bindings.            *)
(* SpecHitbox   : the decision of prepaint to insert a hitbox.             *)
(* SpecPointer  : the pointer listener wrappers and the events they see.   *)
(* SpecFocus    : focus on mouse-down through nested focusable elements.   *)
(* SpecAutosave : the workspace's autosave of dirty items.                 *)
(* SpecClose    : prepare_to_close and the prompts it raises.              *)
(* SpecDocks    : toggling the workspace's docks.                          *)
(* SpecStyle    : the style computed in request-layout, prepaint and paint.*)
(***************************************************************************)
EXTENDS Integers, Sequences, FiniteSets, TLC

VARIABLES
    scene,               \* index of the declared element tree (fixed after Init)
    painted,             \* a frame has been painted: listeners are bound
    mouse_position,      \* Window::mouse_position
    active_drag,         \* AppContext::active_drag : Option<AnyDrag>
    pending_mouse_down,  \* InteractiveElementState::pending_mouse_down, per element
    clicked_state,       \* InteractiveElementState::clicked_state, per element
    captured_mouse_down, \* `captured_mouse_down` of this frame's mouse-up closure
    drag_listener,       \* this frame's move closure still owns the drag binding
    clicked_at_paint,    \* is_clicked() when this frame's listeners were bound
    panicked,            \* a handler hit a failed `expect`
    last,                \* what the last step did (event, listener calls, ...)
    gesture,             \* the mouse-down .. mouse-up gesture in progress
    scroll_offset,       \* Interactivity::scroll_offset cell
    scroll_geom,         \* bounds size, content size and padding of the scroller
    scroll_last,         \* what the last scroll step did
    scroll_handle,       \* ScrollHandleState of the tracked ScrollHandle
    scroll_obs,          \* what the last scroll step resolved or returned
    tt_config,           \* the tooltip element: hoverable tooltip, click listener
    tt_mouse,            \* Window::mouse_position in the tooltip scene
    tt_pending,          \* the element's pending_mouse_down is Some
    tt_drag,             \* cx.has_active_drag()
    active_tooltip,      \* InteractiveElementState::active_tooltip
    tooltip_id,          \* Interactivity::tooltip_id bound by the last frame
    tt_obs,              \* what the last tooltip step did, time hovered
    group_tree,          \* index of the declared tree with named groups
    group_mouse,         \* Window::mouse_position in the group scene
    group_drag,          \* cx.has_active_drag()
    paint_path,          \* the elements whose paint is on the call stack
    paint_done,          \* the elements whose paint has returned this frame
    group_hitboxes,      \* the GroupHitboxes global: name -> stack of hitboxes
    group_style,         \* the group styles compute_style_internal applied
    group_clicked,       \* InteractiveElementState::clicked_state, per element
    group_listener,      \* this frame's active-state closure, per element
    group_obs,           \* what the last group step did
    hv_config,           \* the hover element: click listener, occluding sibling
    hv_mouse,            \* Window::mouse_position in the hover scene
    hv_pending,          \* the element's pending_mouse_down is Some
    hv_drag,             \* cx.has_active_drag()
    hv_painted,          \* a frame has bound the element's closures
    hover_state,         \* InteractiveElementState::hover_state
    hv_delivered,        \* the boolean the hover listener was last called with
    hv_obs,              \* what the last hover step did, the listener's calls
    listener_cfg,        \* one Interactivity's listener collections, and the
                         \* closures the window holds for them this frame
    binding_cfg,         \* one Interactivity's hover_listener, tooltip_builder
                         \* and drag_listener while the caller configures it
    hitbox_cfg,          \* one Interactivity's non-empty fields, and the hitbox
                         \* its prepaint passed on
    pointer_cfg,         \* one pointer listener of one element, the pointer,
                         \* the active drag and the listener's calls for the last event
    focus_cfg,           \* a chain of nested elements, the window's focus and
                         \* what the last mouse-down's dispatch did
    autosave_cfg,        \* the workspace's autosave setting, its items, their
                         \* pending autosave timers, the window and the focus
    close_cfg,           \* the workspace's items and the progress of
                         \* prepare_to_close through its prompts
    dock_cfg,            \* the workspace's docks, its zoomed item, the focus
                         \* and the last operation on them
    style_cfg            \* one Interactivity's style refinements, what holds of the
                         \* window, and the style its last phase computed

mouseVars == <<scene, painted, mouse_position, active_drag, pending_mouse_down,
               clicked_state, captured_mouse_down, drag_listener,
               clicked_at_paint, panicked, last, gesture>>
scrollVars == <<scroll_offset, scroll_geom, scroll_last, scroll_handle,
                scroll_obs>>
tooltipVars == <<tt_config, tt_mouse, tt_pending, tt_drag, active_tooltip,
                 tooltip_id, tt_obs>>
groupVars == <<group_tree, group_mouse, group_drag, paint_path, paint_done,
               group_hitboxes, group_style, group_clicked, group_listener,
               group_obs>>
hoverVars == <<hv_config, hv_mouse, hv_pending, hv_drag, hv_painted,
               hover_state, hv_delivered, hv_obs>>
divVars == <<mouseVars, scrollVars, tooltipVars, groupVars, hoverVars>>
laterVars == <<listener_cfg, binding_cfg, hitbox_cfg, pointer_cfg, focus_cfg,
               autosave_cfg, close_cfg, dock_cfg, style_cfg>>
vars == <<divVars, laterVars>>
otherThanMouse == <<scrollVars, tooltipVars, groupVars, hoverVars, laterVars>>
otherThanScroll == <<mouseVars, tooltipVars, groupVars, hoverVars, laterVars>>
otherThanTooltip == <<mouseVars, scrollVars, groupVars, hoverVars, laterVars>>
otherThanGroups == <<mouseVars, scrollVars, tooltipVars, hoverVars, laterVars>>
otherThanHover == <<mouseVars, scrollVars, tooltipVars, groupVars, laterVars>>
otherThanListeners == <<divVars, binding_cfg, hitbox_cfg, pointer_cfg,
                        focus_cfg, autosave_cfg, close_cfg, dock_cfg,
                        style_cfg>>
otherThanBindings == <<divVars, listener_cfg, hitbox_cfg, pointer_cfg,
                       focus_cfg, autosave_cfg, close_cfg, dock_cfg, style_cfg>>
otherThanHitbox == <<divVars, listener_cfg, binding_cfg, pointer_cfg,
                     focus_cfg, autosave_cfg, close_cfg, dock_cfg, style_cfg>>
otherThanPointer == <<divVars, listener_cfg, binding_cfg, hitbox_cfg,
                      focus_cfg, autosave_cfg, close_cfg, dock_cfg, style_cfg>>
otherThanFocus == <<divVars, listener_cfg, binding_cfg, hitbox_cfg,
                    pointer_cfg, autosave_cfg, close_cfg, dock_cfg, style_cfg>>
otherThanAutosave == <<divVars, listener_cfg, binding_cfg, hitbox_cfg,
                       pointer_cfg, focus_cfg, close_cfg, dock_cfg, style_cfg>>
otherThanClose == <<divVars, listener_cfg, binding_cfg, hitbox_cfg,
                    pointer_cfg, focus_cfg, autosave_cfg, dock_cfg, style_cfg>>
otherThanDocks == <<divVars, listener_cfg, binding_cfg, hitbox_cfg,
                    pointer_cfg, focus_cfg, autosave_cfg, close_cfg, style_cfg>>
otherThanStyle == <<divVars, listener_cfg, binding_cfg, hitbox_cfg,
                    pointer_cfg, focus_cfg, autosave_cfg, close_cfg, dock_cfg>>

----------------------------------------------------------------------------
(* Option<T> as a sequence of length at most one.                          *)
None == <<>>
Some(v) == <<v>>
IsSome(o) == o # <<>>
Unwrap(o) == o[1]

----------------------------------------------------------------------------
(* Bounds of the model: the scene is one row of pixels, x in 0..MaxX.       *)
MaxX == 3

(* div.rs:42  const DRAG_THRESHOLD: f64 = 2.;                               *)
DRAG_THRESHOLD == 2

Points == [x : 0..MaxX, y : {0}]
Buttons == {"Left", "Right"}
Elems == 1..3
DragTypes == {"T1", "T2"}

Point(px, py) == [x |-> px, y |-> py]

(* Bounds::contains: origin <= p < origin + size on both axes.             *)
Contains(b, p) ==
    /\ b.x <= p.x /\ p.x < b.x + b.w
    /\ b.y <= p.y /\ p.y < b.y + b.h

Rect(bx, by, bw, bh) == [x |-> bx, y |-> by, w |-> bw, h |-> bh]

----------------------------------------------------------------------------
(* The declared elements.  An Interactivity configuration is rebuilt from   *)
(* the same declaration every frame; a scene fixes that declaration.        *)
(*   id              the element has an ElementId (so it has element state) *)
(*   occlude         Interactivity::occlude_mouse                           *)
(*   click_listeners number of on_click listeners                           *)
(*   drag            Option<type of the on_drag value>                      *)
(*   drop_listeners  the payload types of the on_drop listeners, in order   *)
(*   can_drop        None, or Some(set of payload types the predicate       *)
(*                   accepts)                                               *)
(*   mouse_up        "none", or an on_any_mouse_up listener that either     *)
(*                   lets the event pass ("pass") or stops it ("stop")      *)
Cfg(b, id, occ, clicks, drag, drops, pred, up) ==
    [bounds |-> b, id |-> id, occlude |-> occ, click_listeners |-> clicks,
     drag |-> drag, drop_listeners |-> drops, can_drop |-> pred,
     mouse_up |-> up]

Scenes == <<
    \* 1: a draggable, clickable parent with a drop target and a draggable,
    \*    clickable child inside it
    << Cfg(Rect(0, 0, 4, 1), TRUE, FALSE, 1, Some("T1"), <<>>, None, "none"),
       Cfg(Rect(1, 0, 1, 1), FALSE, FALSE, 0, None, <<"T1">>, None, "pass"),
       Cfg(Rect(3, 0, 1, 1), TRUE, FALSE, 2, Some("T2"), <<>>, None, "none") >>,
    \* 2: a click-only element, partly covered by a child whose mouse-up
    \*    listener stops propagation, and partly by an occluding element
    << Cfg(Rect(0, 0, 4, 1), TRUE, FALSE, 1, None, <<>>, None, "pass"),
       Cfg(Rect(2, 0, 1, 1), FALSE, FALSE, 0, None, <<>>, None, "stop"),
       Cfg(Rect(3, 0, 1, 1), FALSE, TRUE, 0, None, <<>>, None, "none") >>,
    \* 3: a drag source and two nested drop targets; the inner one lists a
    \*    foreign type first and has a predicate accepting only T1
    << Cfg(Rect(0, 0, 2, 1), TRUE, FALSE, 1, Some("T1"), <<>>, None, "none"),
       Cfg(Rect(2, 0, 2, 1), FALSE, FALSE, 0, None, <<"T1">>, None, "pass"),
       Cfg(Rect(3, 0, 1, 1), FALSE, FALSE, 0, None, <<"T2", "T1">>,
           Some({"T1"}), "pass") >>,
    \* 4: a drag source of T2 that is itself a drop target whose predicate
    \*    vetoes T2, inside a drop target for T2, beside one for T1
    << Cfg(Rect(0, 0, 4, 1), FALSE, FALSE, 0, None, <<"T2">>, None, "pass"),
       Cfg(Rect(0, 0, 3, 1), TRUE, FALSE, 0, Some("T2"), <<"T2">>,
           Some({"T1"}), "none"),
       Cfg(Rect(3, 0, 1, 1), FALSE, FALSE, 0, None, <<"T1">>, None, "none") >>,
    \* 5: a drag source of T1 around two drop targets that each register
    \*    two drop listeners for T1; the second one's predicate vetoes T1
    << Cfg(Rect(0, 0, 4, 1), TRUE, FALSE, 0, Some("T1"), <<>>, None, "pass"),
       Cfg(Rect(1, 0, 1, 1), FALSE, FALSE, 0, None, <<"T1", "T1">>, None,
           "none"),
       Cfg(Rect(3, 0, 1, 1), FALSE, FALSE, 0, None, <<"T1", "T1">>,
           Some({"T2"}), "none") >>
>>

SceneIds == 1..Len(Scenes)
Config(e) == Scenes[scene][e]

----------------------------------------------------------------------------
(* Hit testing.                                                             *)

(* Interactivity::should_insert_hitbox, over the configuration fields the   *)
(* scenes use.                                                              *)
should_insert_hitbox(e) ==
    \/ Config(e).occlude
    \/ Config(e).mouse_up # "none"
    \/ Config(e).click_listeners > 0
    \/ IsSome(Config(e).drag)
    \/ Len(Config(e).drop_listeners) > 0

(* Hitbox::is_hovered against the window's current mouse position: the      *)
(* position is inside the bounds and no occluding hitbox painted later (in  *)
(* front) contains it.                                                      *)
is_hovered(e, p) ==
    /\ should_insert_hitbox(e)
    /\ Contains(Config(e).bounds, p)
    /\ \A f \in Elems :
          (f > e /\ should_insert_hitbox(f) /\ Config(f).occlude)
              => ~Contains(Config(f).bounds, p)

(* (a - b).magnitude() squared: the code compares sqrt(dx^2 + dy^2) with    *)
(* DRAG_THRESHOLD; both sides are non-negative, so the squares compare the  *)
(* same way.                                                                *)
MagnitudeSq(a, b) == (a.x - b.x) * (a.x - b.x) + (a.y - b.y) * (a.y - b.y)

ExceedsThreshold(a, b) == MagnitudeSq(a, b) > DRAG_THRESHOLD * DRAG_THRESHOLD

ElementClickedStateDefault == [group |-> FALSE, element |-> FALSE]
is_clicked(c) == c.group \/ c.element

MouseDownEvent(p, b) == [kind |-> "down", position |-> p, button |-> b]
MouseUpEvent(p, b) == [kind |-> "up", position |-> p, button |-> b]
MouseMoveEvent(p) == [kind |-> "move", position |-> p, button |-> "None"]

----------------------------------------------------------------------------
(* The listeners bound by paint_mouse_listeners.  Each takes the dispatch   *)
(* state s (the cells the closures share, the propagation flags and the     *)
(* record of listener calls) and returns the state after the closure ran.   *)

Call(s, c) == [s EXCEPT !.calls = Append(@, c)]

(* Faulty variants of the handlers below: a property about a handler is    *)
(* expected to fail when the handler is replaced by its variant.            *)

(* The move closure without `*pending_mouse_down.borrow_mut() = None`.      *)
MouseMoveDrag_KeepsPending(e, ev, phase, s) ==
    IF phase = "Capture" THEN s
    ELSE IF ~IsSome(s.pending[e]) THEN s
    ELSE IF /\ ~IsSome(s.active_drag)
            /\ ExceedsThreshold(ev.position, Unwrap(s.pending[e]).position)
            /\ s.drag_listener[e]
    THEN [Call(s, [what |-> "drag", elem |-> e, phase |-> phase])
            EXCEPT !.clicked[e] = ElementClickedStateDefault,
                   !.active_drag =
                       Some([value |-> [type |-> Unwrap(Config(e).drag),
                                        from |-> e]]),
                   !.drag_listener[e] = FALSE,
                   !.propagate_event = FALSE]
    ELSE s

(* The move closure without the `!cx.has_active_drag()` test.               *)
MouseMoveDrag_Overwrites(e, ev, phase, s) ==
    IF phase = "Capture" THEN s
    ELSE IF ~IsSome(s.pending[e]) THEN s
    ELSE IF /\ ExceedsThreshold(ev.position, Unwrap(s.pending[e]).position)
            /\ s.drag_listener[e]
    THEN [Call(s, [what |-> "drag", elem |-> e, phase |-> phase])
            EXCEPT !.clicked[e] = ElementClickedStateDefault,
                   !.active_drag =
                       Some([value |-> [type |-> Unwrap(Config(e).drag),
                                        from |-> e]]),
                   !.drag_listener[e] = FALSE,
                   !.pending[e] = None,
                   !.propagate_event = FALSE]
    ELSE s

(* The move closure with `>=` for `> DRAG_THRESHOLD`.                       *)
MouseMoveDrag_AtThreshold(e, ev, phase, s) ==
    IF phase = "Capture" THEN s
    ELSE IF ~IsSome(s.pending[e]) THEN s
    ELSE IF /\ ~IsSome(s.active_drag)
            /\ MagnitudeSq(ev.position, Unwrap(s.pending[e]).position)
                  >= DRAG_THRESHOLD * DRAG_THRESHOLD
            /\ s.drag_listener[e]
    THEN [Call(s, [what |-> "drag", elem |-> e, phase |-> phase])
            EXCEPT !.clicked[e] = ElementClickedStateDefault,
                   !.active_drag =
                       Some([value |-> [type |-> Unwrap(Config(e).drag),
                                        from |-> e]]),
                   !.drag_listener[e] = FALSE,
                   !.pending[e] = None,
                   !.propagate_event = FALSE]
    ELSE s

(* The click loop starting at the second listener.                          *)
RECURSIVE FireClicks_SkipsFirst(_, _, _, _)
FireClicks_SkipsFirst(e, i, click, s) ==
    IF i >= Config(e).click_listeners THEN s
    ELSE FireClicks_SkipsFirst(e, i + 1, click,
                    Call(s, [what |-> "click", elem |-> e, listener |-> i + 1,
                             down |-> click.down, up |-> click.up,
                             phase |-> "Bubble"]))

(* The drop loop without `cx.stop_propagation()`.                           *)
RECURSIVE DropLoop_Propagates(_, _, _, _)
DropLoop_Propagates(e, i, drag_state_type, s) ==
    IF i > Len(Config(e).drop_listeners) \/ s.panicked THEN s
    ELSE IF Config(e).drop_listeners[i] # drag_state_type
    THEN DropLoop_Propagates(e, i + 1, drag_state_type, s)
    ELSE IF ~IsSome(s.active_drag)
    THEN [s EXCEPT !.panicked = TRUE]
    ELSE LET drag == Unwrap(s.active_drag)
             taken == [s EXCEPT !.active_drag = None]
             can_drop == IF IsSome(Config(e).can_drop)
                         THEN drag.value.type \in Unwrap(Config(e).can_drop)
                         ELSE TRUE
             after == IF can_drop
                      THEN Call(taken, [what |-> "drop", elem |-> e,
                                        listener |-> i, value |-> drag.value,
                                        phase |-> "Bubble"])
                      ELSE taken
         IN  DropLoop_Propagates(e, i + 1, drag_state_type, after)

(* on_any_mouse_up (div.rs:168): bubble phase, hovered.                     *)
UserMouseUp(e, ev, phase, s) ==
    IF phase = "Bubble" /\ is_hovered(e, ev.position)
    THEN LET s1 == Call(s, [what |-> "mouse_up", elem |-> e, phase |-> phase])
         IN  IF Config(e).mouse_up = "stop"
             THEN [s1 EXCEPT !.propagate_event = FALSE]
             ELSE s1
    ELSE s

(* The drop loop taking the drag out of the slot only once the predicate    *)
(* has accepted the drop.                                                   *)
RECURSIVE DropLoop_TakesOnAccept(_, _, _, _)
DropLoop_TakesOnAccept(e, i, drag_state_type, s) ==
    IF i > Len(Config(e).drop_listeners) \/ s.panicked THEN s
    ELSE IF Config(e).drop_listeners[i] # drag_state_type
    THEN DropLoop_TakesOnAccept(e, i + 1, drag_state_type, s)
    ELSE IF ~IsSome(s.active_drag)
    THEN [s EXCEPT !.panicked = TRUE]
    ELSE LET drag == Unwrap(s.active_drag)
             can_drop == IF IsSome(Config(e).can_drop)
                         THEN drag.value.type \in Unwrap(Config(e).can_drop)
                         ELSE TRUE
             after == IF can_drop
                      THEN [Call([s EXCEPT !.active_drag = None],
                                 [what |-> "drop", elem |-> e,
                                  listener |-> i, value |-> drag.value,
                                  phase |-> "Bubble"])
                              EXCEPT !.propagate_event = FALSE]
                      ELSE s
         IN  DropLoop_TakesOnAccept(e, i + 1, drag_state_type, after)

(* The body of `for (drop_state_type, listener) in &drop_listeners`,        *)
(* div.rs:1859-1877, from listener i on.                                    *)
RECURSIVE DropLoop(_, _, _, _)
DropLoop(e, i, drag_state_type, s) ==
    IF i > Len(Config(e).drop_listeners) \/ s.panicked THEN s
    ELSE IF Config(e).drop_listeners[i] # drag_state_type
    THEN DropLoop(e, i + 1, drag_state_type, s)
    ELSE IF ~IsSome(s.active_drag)
    THEN \* cx.active_drag.take().expect(..) on an empty slot
         [s EXCEPT !.panicked = TRUE]
    ELSE LET drag == Unwrap(s.active_drag)
             taken == [s EXCEPT !.active_drag = None]
             can_drop == IF IsSome(Config(e).can_drop)
                         THEN drag.value.type \in Unwrap(Config(e).can_drop)
                         ELSE TRUE
             after == IF can_drop
                      THEN [Call(taken, [what |-> "drop", elem |-> e,
                                         listener |-> i, value |-> drag.value,
                                         phase |-> "Bubble"])
                              EXCEPT !.propagate_event = FALSE]
                      ELSE taken
         IN  DropLoop(e, i + 1, drag_state_type, after)

(* A variant of the drop closure without the `hitbox.is_hovered(window)`   *)
(* test.                                                                    *)
DropHandler_AnyPosition(e, ev, phase, s) ==
    IF IsSome(s.active_drag) /\ phase = "Bubble"
    THEN DropLoop(e, 1, Unwrap(s.active_drag).value.type, s)
    ELSE s

(* The mouse-up closure bound when drop_listeners is not empty,             *)
(* div.rs:1852-1882.                                                        *)
DropHandler(e, ev, phase, s) ==
    IF IsSome(s.active_drag) /\ phase = "Bubble" /\ is_hovered(e, ev.position)
    THEN DropLoop(e, 1, Unwrap(s.active_drag).value.type, s)
    ELSE s

(* The mouse-down closure that arms the element, div.rs:1896-1908.          *)
MouseDownArm(e, ev, phase, s) ==
    IF phase = "Bubble" /\ ev.button = "Left" /\ is_hovered(e, ev.position)
    THEN [s EXCEPT !.pending[e] = Some(ev)]
    ELSE s

(* The mouse-move closure that starts a drag, div.rs:1910-1947.             *)
MouseMoveDrag(e, ev, phase, s) ==
    IF phase = "Capture" THEN s
    ELSE IF ~IsSome(s.pending[e]) THEN s
    ELSE IF /\ ~IsSome(s.active_drag)
            /\ ExceedsThreshold(ev.position, Unwrap(s.pending[e]).position)
            /\ s.drag_listener[e]
    THEN [Call(s, [what |-> "drag", elem |-> e, phase |-> phase])
            EXCEPT !.clicked[e] = ElementClickedStateDefault,
                   !.active_drag =
                       Some([value |-> [type |-> Unwrap(Config(e).drag),
                                        from |-> e]]),
                   !.drag_listener[e] = FALSE,
                   !.pending[e] = None,
                   !.propagate_event = FALSE]
    ELSE s

(* The click_listeners loop of the mouse-up closure, div.rs:1970-1972.      *)
RECURSIVE FireClicks(_, _, _, _)
FireClicks(e, i, click, s) ==
    IF i > Config(e).click_listeners THEN s
    ELSE FireClicks(e, i + 1, click,
                    Call(s, [what |-> "click", elem |-> e, listener |-> i,
                             down |-> click.down, up |-> click.up,
                             phase |-> "Bubble"]))

(* The mouse-up closure that clears the armed slot and fires clicks,        *)
(* div.rs:1949-1976.                                                        *)
MouseUpClick(e, ev, phase, s) ==
    IF phase = "Capture"
    THEN IF IsSome(s.pending[e]) /\ is_hovered(e, ev.position)
         THEN [s EXCEPT !.captured[e] = s.pending[e], !.pending[e] = None]
         ELSE s
    ELSE IF IsSome(s.captured[e])
         THEN FireClicks(e, 1, [down |-> Unwrap(s.captured[e]), up |-> ev],
                         [s EXCEPT !.captured[e] = None])
         ELSE s

(* The closure bound when the element was clicked at paint time: any        *)
(* mouse-up resets the clicked state in the capture phase, div.rs:2108-2114.*)
ClickedReset(e, ev, phase, s) ==
    IF phase = "Capture"
    THEN [s EXCEPT !.clicked[e] = ElementClickedStateDefault]
    ELSE s

(* The closure bound otherwise: a mouse-down over the element sets the      *)
(* clicked state, div.rs:2115-2135.  No scene declares a group-active       *)
(* style, so active_group_hitbox is None and group_hovered is false.        *)
ClickedSet(e, ev, phase, s) ==
    IF phase = "Bubble" /\ ~s.default_prevented
    THEN LET group_hovered == FALSE
             element_hovered == is_hovered(e, ev.position)
         IN  IF group_hovered \/ element_hovered
             THEN [s EXCEPT !.clicked[e] = [group |-> group_hovered,
                                            element |-> element_hovered]]
             ELSE s
    ELSE s

----------------------------------------------------------------------------
(* The frame's listener table and the window's dispatch.                    *)

(* The closures paint_mouse_listeners binds for element e, in the order it  *)
(* binds them (div.rs:1812-1817, 1852, 1884-1976, 2104-2135).  Nothing is   *)
(* bound without a hitbox (div.rs:1623), and the stateful closures need     *)
(* element state, that is an element id (div.rs:1884).                      *)
ListenersOf(e) ==
    IF ~should_insert_hitbox(e) THEN <<>>
    ELSE
      (IF Config(e).mouse_up # "none" THEN << [elem |-> e, l |-> "mouse_up"] >>
       ELSE <<>>)
      \o (IF Len(Config(e).drop_listeners) > 0
          THEN << [elem |-> e, l |-> "drop"] >> ELSE <<>>)
      \o (IF Config(e).id /\ (Config(e).click_listeners > 0 \/ IsSome(Config(e).drag))
          THEN << [elem |-> e, l |-> "arm"], [elem |-> e, l |-> "drag_move"],
                  [elem |-> e, l |-> "click_up"] >>
          ELSE <<>>)
      \o (IF Config(e).id
          THEN << [elem |-> e,
                   l |-> IF clicked_at_paint[e] THEN "clicked_reset"
                         ELSE "clicked_set"] >>
          ELSE <<>>)

(* Frame::mouse_listeners of the rendered frame: elements paint in order,   *)
(* a parent binding its own listeners before its children paint             *)
(* (div.rs:1639-1649).                                                      *)
MouseListeners ==
    IF painted THEN ListenersOf(1) \o ListenersOf(2) \o ListenersOf(3)
    ELSE <<>>

(* A closure bound with Window::on_mouse_event::<E> runs for events of      *)
(* type E only.                                                             *)
Invoke(lis, ev, phase, s) ==
    LET e == lis.elem IN
    CASE lis.l = "mouse_up" /\ ev.kind = "up" -> UserMouseUp(e, ev, phase, s)
      [] lis.l = "drop" /\ ev.kind = "up" -> DropHandler(e, ev, phase, s)
      [] lis.l = "arm" /\ ev.kind = "down" -> MouseDownArm(e, ev, phase, s)
      [] lis.l = "drag_move" /\ ev.kind = "move" -> MouseMoveDrag(e, ev, phase, s)
      [] lis.l = "click_up" /\ ev.kind = "up" -> MouseUpClick(e, ev, phase, s)
      [] lis.l = "clicked_reset" /\ ev.kind = "up" -> ClickedReset(e, ev, phase, s)
      [] lis.l = "clicked_set" /\ ev.kind = "down" -> ClickedSet(e, ev, phase, s)
      [] OTHER -> s

Reverse(q) == [i \in 1..Len(q) |-> q[Len(q) + 1 - i]]

(* One pass over the listeners: each runs in turn until one of them has     *)
(* stopped propagation.                                                     *)
RECURSIVE RunPass(_, _, _, _, _)
RunPass(ls, i, ev, phase, s) ==
    IF i > Len(ls) \/ s.panicked THEN s
    ELSE LET s1 == Invoke(ls[i], ev, phase, s)
         IN  IF s1.propagate_event THEN RunPass(ls, i + 1, ev, phase, s1)
             ELSE s1

(* After the passes the window ends the gesture: a mouse-up cancels an      *)
(* active drag.                                                             *)
WindowEndDrag(ev, s) ==
    IF ~s.panicked /\ IsSome(s.active_drag) /\ ev.kind = "up"
    THEN [s EXCEPT !.active_drag = None]
    ELSE s

(* Window::dispatch_mouse_event: the capture pass in paint order, then,     *)
(* unless propagation was stopped, the bubble pass in reverse order.        *)
DispatchMouseEvent(ev) ==
    LET s0 == [pending |-> pending_mouse_down, clicked |-> clicked_state,
               captured |-> captured_mouse_down, drag_listener |-> drag_listener,
               active_drag |-> active_drag, propagate_event |-> TRUE,
               default_prevented |-> FALSE, calls |-> <<>>, panicked |-> FALSE]
        s1 == RunPass(MouseListeners, 1, ev, "Capture", s0)
        s2 == IF s1.propagate_event /\ ~s1.panicked
              THEN RunPass(Reverse(MouseListeners), 1, ev, "Bubble", s1)
              ELSE s1
    IN  WindowEndDrag(ev, s2)

----------------------------------------------------------------------------
(* The element whose move closure started a drag in this dispatch.         *)
DragStarter(calls) ==
    LET starts == SelectSeq(calls, LAMBDA c : c.what = "drag")
    IN  IF starts = <<>> THEN None ELSE Some(starts[1].elem)

(* The gesture in progress, kept for stating the properties: the last       *)
(* primary mouse-down, whether a move went past the drag threshold from it  *)
(* before any mouse-up, the element that started a drag during it, and      *)
(* whether a mouse-up has just ended it.  An ended gesture is forgotten at  *)
(* the next step.                                                           *)
GestureAfter(ev, calls) ==
    CASE ev.kind = "down" /\ ev.button = "Left" ->
            Some([down |-> ev, exceeded |-> FALSE, drag_from |-> None,
                  ended |-> FALSE])
      [] ev.kind # "down" /\ IsSome(gesture) /\ Unwrap(gesture).ended -> None
      [] ev.kind = "down" /\ ev.button # "Left"
            /\ IsSome(gesture) /\ Unwrap(gesture).ended -> None
      [] ev.kind = "move" /\ IsSome(gesture) /\ ~Unwrap(gesture).ended ->
            Some([Unwrap(gesture) EXCEPT
                    !.exceeded = @ \/ ExceedsThreshold(ev.position,
                                                       Unwrap(gesture).down.position),
                    !.drag_from = IF IsSome(DragStarter(calls))
                                  THEN DragStarter(calls) ELSE @])
      [] ev.kind = "up" /\ IsSome(gesture) /\ ~Unwrap(gesture).ended ->
            Some([Unwrap(gesture) EXCEPT !.ended = TRUE])
      [] OTHER -> gesture

(* One input event from the platform.  Before the first frame there are no *)
(* hitboxes and no listeners, so events are taken from the first frame on. *)
Dispatch(ev) ==
    /\ painted
    /\ ~panicked
    /\ \E s \in {DispatchMouseEvent(ev)} :
        /\ mouse_position' = ev.position
        /\ pending_mouse_down' = s.pending
        /\ clicked_state' = s.clicked
        /\ captured_mouse_down' = s.captured
        /\ drag_listener' = s.drag_listener
        /\ active_drag' = s.active_drag
        /\ panicked' = s.panicked
        /\ last' = [kind |-> ev.kind, calls |-> s.calls,
                    propagate_event |-> s.propagate_event]
        /\ gesture' = GestureAfter(ev, s.calls)
    /\ UNCHANGED <<scene, painted, clicked_at_paint, otherThanMouse>>

MouseDown == \E p \in Points, b \in Buttons : Dispatch(MouseDownEvent(p, b))
MouseUp == \E p \in Points, b \in Buttons : Dispatch(MouseUpEvent(p, b))
MouseMove == \E p \in Points : Dispatch(MouseMoveEvent(p))

(* request_layout without the reset of the armed slot.                      *)
RequestLayoutPending_Keeps(e) == pending_mouse_down[e]

(* Interactivity::request_layout, div.rs:1408-1418: with a drag active the  *)
(* armed slot and the clicked state of an element with state are reset.     *)
RequestLayoutPending(e) ==
    IF Config(e).id /\ IsSome(active_drag) THEN None ELSE pending_mouse_down[e]

RequestLayoutClicked(e) ==
    IF Config(e).id /\ IsSome(active_drag) THEN ElementClickedStateDefault
    ELSE clicked_state[e]

NoEvent == [kind |-> "frame", calls |-> <<>>,
            propagate_event |-> TRUE]

(* One frame: request_layout, prepaint and paint of every element.  Paint   *)
(* binds fresh closures: captured_mouse_down starts None (div.rs:1950), the *)
(* move closure owns the drag binding again (div.rs:1847), and the clicked  *)
(* closure is chosen from the clicked state (div.rs:2108).                  *)
Frame ==
    /\ ~panicked
    /\ pending_mouse_down' = [e \in Elems |-> RequestLayoutPending(e)]
    /\ clicked_state' = [e \in Elems |-> RequestLayoutClicked(e)]
    /\ captured_mouse_down' = [e \in Elems |-> None]
    /\ drag_listener' = [e \in Elems |-> IsSome(Config(e).drag)]
    /\ clicked_at_paint' = [e \in Elems |-> is_clicked(RequestLayoutClicked(e))]
    /\ painted' = TRUE
    /\ last' = NoEvent
    /\ gesture' = GestureAfter(NoEvent, <<>>)
    /\ UNCHANGED <<scene, mouse_position, active_drag, panicked, otherThanMouse>>

----------------------------------------------------------------------------
(* The scroll offset of a scroll-tracked element.  Pixels are integers.     *)

MaxScroll == 500

Size(w, h) == [width |-> w, height |-> h]
Edges(l, r, t, b) == [left |-> l, right |-> r, top |-> t, bottom |-> b]

Max(a, b) == IF a >= b THEN a ELSE b
MinOf(S) == CHOOSE v \in S : \A w \in S : v <= w
MaxOf(S) == CHOOSE v \in S : \A w \in S : v >= w

(* Ord::clamp with min <= max.                                              *)
Clamp(v, lo, hi) == IF v < lo THEN lo ELSE IF v > hi THEN hi ELSE v

(* What the layout engine hands to Div::prepaint: the element's bounds and  *)
(* the bounds of its children, in child order.                              *)
Layouts == {
    [bounds |-> Rect(0, 0, 100, 50), children |-> <<Rect(0, 0, 400, 50)>>],
    [bounds |-> Rect(0, 0, 100, 50), children |-> <<>>],
    [bounds |-> Rect(0, 0, 100, 100),
     children |-> <<Rect(0, 0, 100, 60), Rect(0, 60, 100, 60),
                    Rect(0, 120, 100, 60)>>],
    [bounds |-> Rect(10, 20, 400, 100),
     children |-> <<Rect(10, 20, 100, 50), Rect(110, 20, 100, 50)>>],
    [bounds |-> Rect(0, 0, 100, 50),
     children |-> <<Rect(0, 0, 100, 60), Rect(0, 60, 100, 60),
                    Rect(0, 120, 100, 60)>>] }

(* The part of the computed Style the scroll code reads.  Padding lengths   *)
(* are absolute pixels.                                                     *)
Styles == {
    [padding |-> Edges(0, 0, 0, 0),
     overflow |-> [x |-> "Scroll", y |-> "Scroll"],
     allow_concurrent_scroll |-> FALSE],
    [padding |-> Edges(10, 20, 5, 0),
     overflow |-> [x |-> "Scroll", y |-> "Visible"],
     allow_concurrent_scroll |-> FALSE],
    [padding |-> Edges(0, 0, 10, 10),
     overflow |-> [x |-> "Scroll", y |-> "Scroll"],
     allow_concurrent_scroll |-> TRUE] }

OffsetInputs == {Point(-500, 0), Point(-310, -70), Point(0, -100), Point(50, 50)}
Deltas == {Point(dx, dy) : dx \in {-100, 0}, dy \in {0, 40}}

(* content_size of Div::prepaint, div.rs:1253-1285: the element's own size  *)
(* without children, else child_max - child_min, where child_min starts at  *)
(* Pixels::MAX and child_max at the origin.                                 *)
ContentSize(bounds, children) ==
    IF children = <<>> THEN Size(bounds.w, bounds.h)
    ELSE LET ix == DOMAIN children
             min_x == MinOf({children[i].x : i \in ix})
             min_y == MinOf({children[i].y : i \in ix})
             max_x == MaxOf({0} \cup {children[i].x + children[i].w : i \in ix})
             max_y == MaxOf({0} \cup {children[i].y + children[i].h : i \in ix})
         IN  Size(max_x - min_x, max_y - min_y)

(* padding_size of clamp_scroll_position, div.rs:1542-1560.                 *)
PaddingSize(style) ==
    Size(style.padding.left + style.padding.right,
         style.padding.top + style.padding.bottom)

(* A variant of clamp_scroll_position that omits `.max(&Size::default())`.  *)
clamp_scroll_position_NoFloor(offset, bounds, style, content_size) ==
    LET padding_size == PaddingSize(style)
        w == content_size.width + padding_size.width - bounds.w
        h == content_size.height + padding_size.height - bounds.h
    IN  Point(IF offset.x > 0 THEN 0 ELSE Max(offset.x, -w),
              IF offset.y > 0 THEN 0 ELSE Max(offset.y, -h))

(* Interactivity::clamp_scroll_position, div.rs:1531-1571, for an element   *)
(* that has a scroll offset cell: the clamped offset.                       *)
clamp_scroll_position(offset, bounds, style, content_size) ==
    LET padding_size == PaddingSize(style)
        scroll_max ==
            Size(Max(content_size.width + padding_size.width - bounds.w, 0),
                 Max(content_size.height + padding_size.height - bounds.h, 0))
    IN  Point(Clamp(offset.x, -scroll_max.width, 0),
              Clamp(offset.y, -scroll_max.height, 0))

(* Before the first prepaint: a default offset cell and no geometry.        *)
ScrollIdle ==
    /\ scroll_offset = Point(0, 0)
    /\ scroll_geom = [bounds |-> Rect(0, 0, 0, 0), content_size |-> Size(0, 0),
                      style |-> CHOOSE st \in Styles : ~st.allow_concurrent_scroll
                                                      /\ st.overflow.y = "Scroll"]
    /\ scroll_last = [op |-> "init", before |-> Point(0, 0)]

(* Nothing resolved, asked or returned by the last step.                    *)
NoObs == [request |-> None, resolved |-> None, result |-> None, item |-> None,
          children |-> None]

(* ScrollHandleState::default, div.rs:2630-2637.                            *)
ScrollHandleIdle ==
    /\ scroll_handle = [bounds |-> Rect(0, 0, 0, 0), child_bounds |-> <<>>,
                        requested_scroll_top |-> None,
                        overflow |-> [x |-> "Visible", y |-> "Visible"]]
    /\ scroll_obs = NoObs

(* The tooltip delay, the step of the clock, the longest hover time kept    *)
(* on record, and the last pixel of the tooltip scene's row.                *)
TOOLTIP_DELAY == 500
TickMs == 250
MaxHoverMs == 1000
MaxTX == 3

(* The tooltip scene before any event: the pointer outside the element, no  *)
(* tooltip.                                                                 *)
TooltipIdle ==
    /\ tt_mouse = MaxTX
    /\ tt_pending = FALSE
    /\ tt_drag = FALSE
    /\ active_tooltip = None
    /\ tooltip_id = None
    /\ tt_obs = [op |-> "init", hover_for |-> 0]

(* Trees with named groups: four elements in paint order on one row of     *)
(* pixels, x in 0..MaxGX; parent 0 marks the root.                          *)
MaxGX == 3
GroupXs == 0..MaxGX
GroupNames == {"a", "b"}
GroupElems == 1..4

GElem(parent, group, hidden, listens, group_hover, group_active, xs) ==
    [parent |-> parent, group |-> group, hidden |-> hidden, listens |-> listens,
     group_hover |-> group_hover, group_active |-> group_active,
     xs |-> xs \cap GroupXs]

GroupTrees == <<
    \* nested groups of the same name
    << GElem(0, Some("a"), FALSE, FALSE, None, None, {0, 1, 2}),
       GElem(1, Some("a"), FALSE, FALSE, None, None, {1, 2}),
       GElem(2, None, FALSE, FALSE, Some("a"), Some("a"), {2}),
       GElem(1, None, FALSE, FALSE, Some("a"), Some("a"), {0}) >>,
    \* a hidden group with a child, and an element without a hitbox
    << GElem(0, Some("a"), FALSE, FALSE, None, None, {0, 1, 2}),
       GElem(1, Some("b"), TRUE, FALSE, None, None, {0, 1}),
       GElem(2, None, FALSE, FALSE, Some("b"), None, {0}),
       GElem(1, None, FALSE, FALSE, None, Some("a"), {2}) >>,
    \* an element styled by the group it declares, and two names
    << GElem(0, Some("a"), FALSE, FALSE, Some("a"), Some("a"), {0, 1, 2, 3}),
       GElem(1, Some("b"), FALSE, FALSE, Some("a"), None, {1, 2}),
       GElem(2, None, FALSE, TRUE, None, Some("b"), {2, 3}),
       GElem(2, Some("a"), FALSE, FALSE, Some("a"), Some("a"), {1}) >>
>>
GroupTreeIds == 1..Len(GroupTrees)

(* No closure bound for the clicked state.                                  *)
NoListener == [kind |-> "none", hitbox |-> None]

(* The group scene before its first paint: GroupHitboxes::default,          *)
(* div.rs:2385-2386, and default element states.                            *)
GroupIdle ==
    /\ group_mouse = 0
    /\ group_drag = FALSE
    /\ paint_path = <<>>
    /\ paint_done = {}
    /\ group_hitboxes = [name \in GroupNames |-> <<>>]
    /\ group_style = [e \in GroupElems |-> [hover |-> FALSE, active |-> FALSE]]
    /\ group_clicked = [e \in GroupElems |-> ElementClickedStateDefault]
    /\ group_listener = [e \in GroupElems |-> NoListener]
    /\ group_obs = [op |-> "init", elem |-> 0]

(* The hover scene: an element with a hover listener on one row of pixels, *)
(* x in 0..MaxHX, before its first frame and with the pointer outside it.   *)
MaxHX == 3
HoverXs == 0..MaxHX

HoverIdle ==
    /\ hv_mouse = MaxHX
    /\ hv_pending = FALSE
    /\ hv_drag = FALSE
    /\ hv_painted = FALSE
    /\ hover_state = FALSE
    /\ hv_delivered = None
    /\ hv_obs = [op |-> "init", calls |-> <<>>]

(* The listener collections of an Interactivity, div.rs:1339-1393, and the  *)
(* categories whose binding needs a hitbox, a hitbox and an element state,  *)
(* or neither.                                                              *)
MouseCategories == {"mouse_down", "mouse_up", "mouse_move", "scroll_wheel",
                    "drop"}
StateCategories == {"click", "drag", "hover", "tooltip"}
KeyCategories == {"key_down", "key_up", "modifiers_changed", "action"}
ListenerCategories == MouseCategories \cup StateCategories \cup KeyCategories

(* A configuration with the listeners of the categories in `declared`,      *)
(* before its first paint.                                                  *)
ListenerCfg(declared) ==
    [declared |-> declared,
     config |-> declared,
     bound |-> [c \in ListenerCategories |-> 0],
     paints |-> 0,
     op |-> "init"]

ListenersIdle == listener_cfg = ListenerCfg({})

(* A configuration without singleton bindings, in a build with or without  *)
(* debug assertions.                                                        *)
BindingCfg(debug_assertions) ==
    [debug_assertions |-> debug_assertions,
     hover_listener |-> None,
     tooltip_builder |-> None,
     drag_listener |-> None,
     panicked |-> FALSE,
     op |-> "init",
     arg |-> None,
     second |-> FALSE]

BindingsIdle == binding_cfg = BindingCfg(TRUE)

(* An Interactivity, given by the set of its fields that are set, before    *)
(* its prepaint.                                                            *)
HitboxCfg(fields) == [fields |-> fields, hitbox |-> None]

HitboxIdle == hitbox_cfg = HitboxCfg({})

(* One element with one pointer listener registered through wrapper, under  *)
(* an occluding hitbox or not; nothing has been dispatched.                 *)
PointerCfg(wrapper, occluded) ==
    [wrapper |-> wrapper,
     occluded |-> occluded,
     mouse |-> 0,
     active_drag |-> None,
     event |-> None,
     calls |-> <<>>]

PointerIdle ==
    pointer_cfg = PointerCfg([name |-> "on_any_mouse_down", arg |-> "none"], FALSE)

(* A chain of nested elements, chain[1] the outermost, with the pointer     *)
(* over the first hover_depth of them; no mouse-down has been dispatched.   *)
FocusCfg(chain, hover_depth) ==
    [chain |-> chain,
     hover_depth |-> hover_depth,
     focus |-> 0,
     dispatched |-> FALSE,
     focused |-> <<>>,
     called |-> <<>>]

FocusIdle == focus_cfg = FocusCfg(<<>>, 0)

(* The items of the workspace, one in each of two panes.                    *)
AutosaveItems == {1, 2}

(* A workspace whose items are clean, in an active window, nothing focused. *)
(* since_edit, saves_since_edit and watched observe the edits: the ticks    *)
(* since an item's latest Edit event and the saves since it, and the same   *)
(* for one earlier Edit event followed until its delay has elapsed.         *)
AutosaveCfg(autosave) ==
    [autosave |-> autosave,
     items |-> [i \in AutosaveItems |-> [is_dirty |-> FALSE, save_count |-> 0]],
     pending_autosave |-> [i \in AutosaveItems |-> {}],
     window_active |-> TRUE,
     focused |-> 0,
     since_edit |-> [i \in AutosaveItems |-> None],
     saves_since_edit |-> [i \in AutosaveItems |-> 0],
     watched |-> [i \in AutosaveItems |-> None]]

AutosaveIdle == autosave_cfg = AutosaveCfg("off")

(* A workspace with the given items, in a call or not, before              *)
(* prepare_to_close is called; items keeps them as they were then and saved *)
(* holds the ones saved since. prompt is the prompt the task waits on,      *)
(* result what the task resolved to; prompts and cancelled observe the      *)
(* prompts raised and whether the user cancelled a save prompt.             *)
CloseCfg(items, in_call, disconnected) ==
    [items |-> items,
     in_call |-> in_call,
     disconnected |-> disconnected,
     prompt |-> "none",
     save_intent |-> "Close",
     dirty_items |-> <<>>,
     saved |-> {},
     result |-> None,
     prompts |-> 0,
     cancelled |-> FALSE]

CloseIdle == close_cfg = CloseCfg(<<>>, FALSE, FALSE)

(* DockPosition.                                                            *)
DockPositions == {"Left", "Bottom", "Right"}

(* A workspace whose docks are closed, those of has_panel with an active    *)
(* panel, the focus in the center pane and nothing zoomed. zoomed is        *)
(* "none", "pane" for the center pane (zoomed_position None) or the         *)
(* position of the dock whose panel is zoomed.                              *)
DockCfg(has_panel) ==
    [docks |-> [d \in DockPositions |->
                   [is_open |-> FALSE, active_panel |-> d \in has_panel,
                    panel_zoomed |-> FALSE]],
     focus |-> "center",
     zoomed |-> "none",
     pane_zoomed |-> FALSE,
     op |-> "none"]

DocksIdle == dock_cfg = DockCfg({})

(* An Interactivity with the given style fields set, in a window of which   *)
(* the given facts hold, before its first phase.                            *)
StyleCfg(fields, facts) ==
    [fields |-> fields, facts |-> facts, phase |-> "none", style |-> {}]

StyleIdle == style_cfg = StyleCfg({}, {})

(* The subsystems specified further down, each in its idle state.           *)
LaterIdle ==
    /\ ListenersIdle
    /\ BindingsIdle
    /\ HitboxIdle
    /\ PointerIdle
    /\ FocusIdle
    /\ AutosaveIdle
    /\ CloseIdle
    /\ DocksIdle
    /\ StyleIdle

(* The mouse state before the first frame.                                  *)
MouseIdle ==
    /\ painted = FALSE
    /\ mouse_position = Point(0, 0)
    /\ active_drag = None
    /\ pending_mouse_down = [e \in Elems |-> None]
    /\ clicked_state = [e \in Elems |-> ElementClickedStateDefault]
    /\ captured_mouse_down = [e \in Elems |-> None]
    /\ drag_listener = [e \in Elems |-> FALSE]
    /\ clicked_at_paint = [e \in Elems |-> FALSE]
    /\ panicked = FALSE
    /\ last = NoEvent
    /\ gesture = None

Init ==
    /\ scene \in SceneIds
    /\ MouseIdle
    /\ ScrollIdle
    /\ ScrollHandleIdle
    /\ tt_config = [hoverable |-> FALSE, clickable |-> FALSE]
    /\ TooltipIdle
    /\ group_tree = 1
    /\ GroupIdle
    /\ hv_config = [clickable |-> FALSE, occluded |-> FALSE]
    /\ HoverIdle
    /\ LaterIdle

Next == MouseDown \/ MouseUp \/ MouseMove \/ Frame

Spec == Init /\ [][Next]_vars

----------------------------------------------------------------------------
(* The scroller on its own: frames and scroll input, no mouse gestures.     *)

(* ScrollHandle::set_offset, div.rs:2727-2730.                              *)
SetOffset(position) ==
    /\ scroll_offset' = position
    /\ scroll_last' = [op |-> "set_offset", before |-> scroll_offset]
    /\ scroll_obs' = NoObs
    /\ UNCHANGED <<scroll_geom, scroll_handle, otherThanScroll>>

(* The scroll-wheel closure of paint_scroll_listener, div.rs:2195-2236, in  *)
(* the bubble phase over the hovered element, bound by the last frame.      *)
ScrollWheel(delta) ==
    /\ scroll_last.op # "init"
    /\ LET overflow == scroll_geom.style.overflow
           dx0 == IF overflow.x = "Scroll"
                  THEN IF delta.x # 0 THEN delta.x
                       ELSE IF overflow.y # "Scroll" THEN delta.y ELSE 0
                  ELSE 0
           dy0 == IF overflow.y = "Scroll"
                  THEN IF delta.y # 0 THEN delta.y
                       ELSE IF overflow.x # "Scroll" THEN delta.x ELSE 0
                  ELSE 0
           Abs(v) == IF v < 0 THEN -v ELSE v
           exclusive == /\ ~scroll_geom.style.allow_concurrent_scroll
                        /\ dx0 # 0 /\ dy0 # 0
           delta_x == IF exclusive /\ ~(Abs(dx0) > Abs(dy0)) THEN 0 ELSE dx0
           delta_y == IF exclusive /\ Abs(dx0) > Abs(dy0) THEN 0 ELSE dy0
       IN  /\ scroll_offset.x + delta_x \in -MaxScroll..MaxScroll
           /\ scroll_offset.y + delta_y \in -MaxScroll..MaxScroll
           /\ scroll_offset' = Point(scroll_offset.x + delta_x,
                                     scroll_offset.y + delta_y)
    /\ scroll_last' = [op |-> "wheel", before |-> scroll_offset]
    /\ scroll_obs' = NoObs
    /\ UNCHANGED <<scroll_geom, scroll_handle, otherThanScroll>>

(* A variant of ResolveRequested that drops the pixel offset of the request.*)
ResolveRequested_NoPx(requested, bounds, children, offset) ==
    IF IsSome(requested) /\ Unwrap(requested).ix < Len(children)
    THEN LET child_bounds == children[Unwrap(requested).ix + 1] IN
         Point(bounds.x - child_bounds.x, bounds.y - child_bounds.y)
    ELSE offset

(* The offset a scroll-to-child request resolves to in Div::prepaint,       *)
(* div.rs:1262-1276: bounds.origin - (child_bounds.origin - (0, px)) for    *)
(* the requested child, the current offset if there is no such child.       *)
ResolveRequested(requested, bounds, children, offset) ==
    IF IsSome(requested) /\ Unwrap(requested).ix < Len(children)
    THEN LET child_bounds == children[Unwrap(requested).ix + 1] IN
         Point(bounds.x - child_bounds.x,
               bounds.y - (child_bounds.y - Unwrap(requested).px))
    ELSE offset

(* Div::prepaint and Interactivity::prepaint of a frame of the element that *)
(* tracks the ScrollHandle, div.rs:1243-1300 and 1458-1511: with children,  *)
(* record the bounds and the child bounds in the handle and take and        *)
(* resolve a pending request; record the content size and the overflow;     *)
(* clamp the offset.                                                        *)
Prepaint(layout, style) ==
    LET content_size == ContentSize(layout.bounds, layout.children)
        has_children == layout.children # <<>>
        requested == IF has_children THEN scroll_handle.requested_scroll_top
                     ELSE None
        resolved == ResolveRequested(requested, layout.bounds, layout.children,
                                     scroll_offset)
    IN
    /\ scroll_geom' = [bounds |-> layout.bounds, content_size |-> content_size,
                       style |-> style]
    /\ scroll_handle' =
           IF has_children
           THEN [bounds |-> layout.bounds, child_bounds |-> layout.children,
                 requested_scroll_top |-> None, overflow |-> style.overflow]
           ELSE [scroll_handle EXCEPT !.overflow = style.overflow]
    /\ scroll_offset' = clamp_scroll_position(resolved, layout.bounds,
                                              style, content_size)
    /\ scroll_last' = [op |-> "prepaint", before |-> scroll_offset]
    /\ scroll_obs' = [NoObs EXCEPT !.request = requested,
                                   !.resolved = Some(resolved),
                                   !.children = Some(Len(layout.children))]
    /\ UNCHANGED otherThanScroll

InitScroll == Init /\ scene = 1

NextScroll ==
    \/ \E position \in OffsetInputs : SetOffset(position)
    \/ \E delta \in Deltas : ScrollWheel(delta)
    \/ \E layout \in Layouts, style \in Styles : Prepaint(layout, style)

SpecScroll == InitScroll /\ [][NextScroll]_vars

----------------------------------------------------------------------------
(* The ScrollHandle of a scroll-tracked element: requests, queries, frames. *)

MaxIx == 3

ItemIndexes == 0..MaxIx
RequestPx == {0, -20, 10}

Top(b) == b.y
Bottom(b) == b.y + b.h
Left(b) == b.x
Right(b) == b.x + b.w

(* ScrollHandle::set_logical_scroll_top, div.rs:2747-2750.                  *)
SetLogicalScrollTop(ix, px) ==
    /\ scroll_handle' = [scroll_handle EXCEPT
                            !.requested_scroll_top = Some([ix |-> ix, px |-> px])]
    /\ scroll_last' = [op |-> "set_logical_scroll_top", before |-> scroll_offset]
    /\ scroll_obs' = NoObs
    /\ UNCHANGED <<scroll_offset, scroll_geom, otherThanScroll>>

(* A variant of ScrollAxisToItem that compares the child's edges without    *)
(* the current offset.                                                      *)
ScrollAxisToItem_NoOffset(scrolls, off, lo, hi, blo, bhi) ==
    IF ~scrolls THEN off
    ELSE IF lo < blo THEN blo - lo
    ELSE IF hi > bhi THEN bhi - hi
    ELSE off

(* The new offset on one axis in ScrollHandle::scroll_to_item,              *)
(* div.rs:2707-2721: lo and hi are the child's edges, blo and bhi the       *)
(* container's.                                                             *)
ScrollAxisToItem(scrolls, off, lo, hi, blo, bhi) ==
    IF ~scrolls THEN off
    ELSE IF lo + off < blo THEN blo - lo
    ELSE IF hi + off > bhi THEN bhi - hi
    ELSE off

(* ScrollHandle::scroll_to_item, div.rs:2698-2722.                          *)
ScrollToItem(ix) ==
    /\ scroll_offset' =
           IF ix >= Len(scroll_handle.child_bounds) THEN scroll_offset
           ELSE LET bounds == scroll_handle.child_bounds[ix + 1]
                    state == scroll_handle
                IN  Point(ScrollAxisToItem(state.overflow.x = "Scroll",
                                           scroll_offset.x, Left(bounds),
                                           Right(bounds), Left(state.bounds),
                                           Right(state.bounds)),
                          ScrollAxisToItem(state.overflow.y = "Scroll",
                                           scroll_offset.y, Top(bounds),
                                           Bottom(bounds), Top(state.bounds),
                                           Bottom(state.bounds)))
    /\ scroll_last' = [op |-> "scroll_to_item", before |-> scroll_offset]
    /\ scroll_obs' = [NoObs EXCEPT !.item = Some(ix)]
    /\ UNCHANGED <<scroll_geom, scroll_handle, otherThanScroll>>

(* The comparison ScrollHandle::top_item hands to binary_search_by,         *)
(* div.rs:2667-2675.                                                        *)
TopItemOrdering(top, bounds) ==
    IF top < Top(bounds) THEN "Greater"
    ELSE IF top > Bottom(bounds) THEN "Less"
    ELSE "Equal"

(* ScrollHandle::top_item, div.rs:2662-2679: the indexes it can return.     *)
(* binary_search_by returns any one of the children that compare Equal,     *)
(* else the insertion point, which top_item caps at the last index.         *)
TopItems ==
    LET state == scroll_handle
        top == Top(state.bounds) - scroll_offset.y
        n == Len(state.child_bounds)
        equal == {i \in 1..n :
                     TopItemOrdering(top, state.child_bounds[i]) = "Equal"}
        less == {i \in 1..n :
                    TopItemOrdering(top, state.child_bounds[i]) = "Less"}
        last_ix == IF n = 0 THEN 0 ELSE n - 1
    IN  IF equal # {} THEN {i - 1 : i \in equal}
        ELSE {IF Cardinality(less) < last_ix THEN Cardinality(less)
              ELSE last_ix}

(* ScrollHandle::logical_scroll_top, div.rs:2733-2745, for top_item() = ix. *)
LogicalScrollTopOf(ix) ==
    IF ix < Len(scroll_handle.child_bounds)
    THEN [ix |-> ix,
          px |-> Top(scroll_handle.child_bounds[ix + 1]) + scroll_offset.y
                 - Top(scroll_handle.bounds)]
    ELSE [ix |-> ix, px |-> 0]

(* A call of ScrollHandle::logical_scroll_top.  The request and the offset  *)
(* the last prepaint resolved stay on record for the call that follows it.  *)
LogicalScrollTop ==
    /\ \E ix \in TopItems :
          scroll_obs' = [scroll_obs EXCEPT !.result = Some(LogicalScrollTopOf(ix)),
                                          !.item = None]
    /\ scroll_last' = [op |-> "logical_scroll_top", before |-> scroll_offset]
    /\ UNCHANGED <<scroll_offset, scroll_geom, scroll_handle, otherThanScroll>>

NextHandle ==
    \/ \E ix \in ItemIndexes, px \in RequestPx : SetLogicalScrollTop(ix, px)
    \/ \E ix \in ItemIndexes : ScrollToItem(ix)
    \/ LogicalScrollTop
    \/ \E position \in OffsetInputs : SetOffset(position)
    \/ \E layout \in Layouts, style \in Styles : Prepaint(layout, style)

SpecHandle == InitScroll /\ [][NextHandle]_vars

----------------------------------------------------------------------------
(* The tooltip of one element with an id, a hitbox over the pixels ElemXs   *)
(* of a single row, and a tooltip builder.  Time is counted in              *)
(* milliseconds.                                                            *)

TooltipXs == 0..MaxTX
ElemXs == {0, 1}
TooltipConfigs == [hoverable : BOOLEAN, clickable : BOOLEAN]

(* Where the window paints a tooltip built with the pointer at x: the pixel *)
(* to the right of the pointer.                                             *)
TooltipBounds(x) == {x + 1} \cap TooltipXs

(* hitbox.is_hovered(window) for the element, nothing occluding it.         *)
ElemHovered(x) == x \in ElemXs

(* tooltip_id.map_or(false, |tooltip_id| tooltip_id.is_hovered(window)),    *)
(* div.rs:2032-2033.                                                        *)
TooltipIsHovered(x) ==
    IsSome(tooltip_id) /\ x \in TooltipBounds(Unwrap(tooltip_id))

(* The slot holding the delay task, div.rs:2065-2068, and the slot the task *)
(* writes when its timer has fired, div.rs:2052-2058.                       *)
ScheduledTooltip == Some([tooltip |-> None, task |-> Some([elapsed |-> 0])])
BuiltTooltip(x) == Some([tooltip |-> Some([mouse_position |-> x]), task |-> None])

IsScheduled(slot) == IsSome(slot) /\ IsSome(Unwrap(slot).task)
IsBuilt(slot) == IsSome(slot) /\ IsSome(Unwrap(slot).tooltip)

(* The tooltip's mouse-move closure, div.rs:2024-2072, in one phase.        *)
TooltipMouseMove(phase, x, pending, slot) ==
    LET hovered == ~pending /\ ElemHovered(x)
        tooltip_is_hovered == TooltipIsHovered(x)
    IN  IF ~hovered /\ (~tt_config.hoverable \/ ~tooltip_is_hovered)
        THEN None
        ELSE IF phase # "Bubble" THEN slot
        ELSE IF slot = None THEN ScheduledTooltip
        ELSE slot

(* The tooltip's mouse-down closure, div.rs:2074-2086, and its scroll-wheel *)
(* closure, div.rs:2088-2100: in either phase.                              *)
(* Faulty variant: the mouse-down closure without the hoverable test.       *)
TooltipMouseDown_AlwaysClears(x, slot) == None

TooltipMouseDown(x, slot) ==
    IF ~tt_config.hoverable \/ ~TooltipIsHovered(x) THEN None ELSE slot

TooltipScrollWheel(x, slot) ==
    IF ~tt_config.hoverable \/ ~TooltipIsHovered(x) THEN None ELSE slot

(* The time the pointer has stayed over the element since it entered it or  *)
(* since the last mouse-down.                                               *)
HoverAfter(op, x) ==
    IF op = "down" \/ ~ElemHovered(x) THEN 0 ELSE tt_obs.hover_for

(* A mouse-move to x: capture pass, then bubble pass.                       *)
TtMouseMove(x) ==
    /\ tt_mouse' = x
    /\ active_tooltip' =
           TooltipMouseMove("Bubble", x, tt_pending,
               TooltipMouseMove("Capture", x, tt_pending, active_tooltip))
    /\ tt_obs' = [op |-> "move", hover_for |-> HoverAfter("move", x)]
    /\ UNCHANGED <<tt_config, tt_pending, tt_drag, tooltip_id, otherThanTooltip>>

(* Buttons are pressed and released where the pointer is: the platform      *)
(* reports the pointer's way there as mouse-moves.                          *)

(* A primary mouse-down at x: the tooltip closure in both phases, and the   *)
(* arming closure of an element with a click listener, div.rs:1896-1908.    *)
TtMouseDown(x) ==
    /\ tt_mouse' = x
    /\ active_tooltip' = TooltipMouseDown(x, TooltipMouseDown(x, active_tooltip))
    /\ tt_pending' = IF tt_config.clickable /\ ElemHovered(x) THEN TRUE
                     ELSE tt_pending
    /\ tt_obs' = [op |-> "down", hover_for |-> HoverAfter("down", x)]
    /\ UNCHANGED <<tt_config, tt_drag, tooltip_id, otherThanTooltip>>

(* A mouse-up at x: the element's mouse-up closure empties the armed slot   *)
(* when hovered, div.rs:1956-1961, and the window ends the drag.            *)
TtMouseUp(x) ==
    /\ tt_mouse' = x
    /\ tt_pending' = IF tt_pending /\ ElemHovered(x) THEN FALSE ELSE tt_pending
    /\ tt_drag' = FALSE
    /\ tt_obs' = [op |-> "up", hover_for |-> HoverAfter("up", x)]
    /\ UNCHANGED <<tt_config, active_tooltip, tooltip_id, otherThanTooltip>>

(* A scroll-wheel event at the pointer's position.                          *)
TtScrollWheel ==
    /\ active_tooltip' = TooltipScrollWheel(tt_mouse,
                             TooltipScrollWheel(tt_mouse, active_tooltip))
    /\ tt_obs' = [op |-> "scroll", hover_for |-> tt_obs.hover_for]
    /\ UNCHANGED <<tt_config, tt_mouse, tt_pending, tt_drag, tooltip_id,
                   otherThanTooltip>>

(* Another element starts a drag.                                           *)
TtDragStart ==
    /\ ~tt_drag
    /\ tt_drag' = TRUE
    /\ tt_obs' = [op |-> "drag", hover_for |-> tt_obs.hover_for]
    /\ UNCHANGED <<tt_config, tt_mouse, tt_pending, active_tooltip, tooltip_id,
                   otherThanTooltip>>

(* A frame: request_layout empties the armed slot during a drag,            *)
(* div.rs:1408-1413; prepaint hands a built tooltip to the window and keeps *)
(* its id for this frame's closures, div.rs:1482-1488 and 2030, 2076, 2090. *)
TtFrame ==
    /\ tt_pending' = IF tt_drag THEN FALSE ELSE tt_pending
    /\ tooltip_id' = IF IsBuilt(active_tooltip)
                     THEN Some(Unwrap(Unwrap(active_tooltip).tooltip).mouse_position)
                     ELSE None
    /\ tt_obs' = [op |-> "frame", hover_for |-> tt_obs.hover_for]
    /\ UNCHANGED <<tt_config, tt_mouse, tt_drag, active_tooltip, otherThanTooltip>>

(* TickMs milliseconds pass: the timer of a scheduled task runs on.         *)
TtTick ==
    /\ active_tooltip' =
           IF IsScheduled(active_tooltip)
                 /\ Unwrap(Unwrap(active_tooltip).task).elapsed < TOOLTIP_DELAY
           THEN Some([tooltip |-> None,
                      task |-> Some([elapsed |->
                          Unwrap(Unwrap(active_tooltip).task).elapsed + TickMs])])
           ELSE active_tooltip
    /\ tt_obs' = [op |-> "tick",
                  hover_for |-> IF ElemHovered(tt_mouse)
                                     /\ tt_obs.hover_for + TickMs <= MaxHoverMs
                                THEN tt_obs.hover_for + TickMs
                                ELSE tt_obs.hover_for]
    /\ UNCHANGED <<tt_config, tt_mouse, tt_pending, tt_drag, tooltip_id,
                   otherThanTooltip>>

(* The delay task, still held by the slot, runs after its timer: it builds  *)
(* the tooltip into the slot, div.rs:2048-2062.                             *)
TtTaskRuns ==
    /\ IsScheduled(active_tooltip)
    /\ Unwrap(Unwrap(active_tooltip).task).elapsed >= TOOLTIP_DELAY
    /\ active_tooltip' = BuiltTooltip(tt_mouse)
    /\ tt_obs' = [op |-> "task", hover_for |-> tt_obs.hover_for]
    /\ UNCHANGED <<tt_config, tt_mouse, tt_pending, tt_drag, tooltip_id,
                   otherThanTooltip>>

InitTooltip ==
    /\ scene = 1
    /\ MouseIdle
    /\ ScrollIdle
    /\ ScrollHandleIdle
    /\ tt_config \in TooltipConfigs
    /\ TooltipIdle
    /\ group_tree = 1
    /\ GroupIdle
    /\ hv_config = [clickable |-> FALSE, occluded |-> FALSE]
    /\ HoverIdle
    /\ LaterIdle

NextTooltip ==
    \/ \E x \in TooltipXs : TtMouseMove(x)
    \/ TtMouseDown(tt_mouse)
    \/ TtMouseUp(tt_mouse)
    \/ TtScrollWheel
    \/ TtDragStart
    \/ TtFrame
    \/ TtTick
    \/ TtTaskRuns

SpecTooltip == InitTooltip /\ [][NextTooltip]_vars

----------------------------------------------------------------------------
(* Named hitbox groups: the paint pass of a tree, one call or return of     *)
(* Interactivity::paint at a time, and mouse events between frames.         *)

GroupTree == GroupTrees[group_tree]

(* should_insert_hitbox, div.rs:1513-1529, for the settings a tree element  *)
(* can have: a group-active style alone inserts no hitbox.                  *)
GroupHitbox(el) ==
    IsSome(el.group) \/ IsSome(el.group_hover) \/ el.listens

(* HitboxId::is_hovered for the hitbox of element e: no tree has an         *)
(* occluding element.                                                       *)
GroupHovered(e, x) == x \in GroupTree[e].xs

(* GroupHitboxes::get, div.rs:2391-2397: the last entry of the name's stack. *)
GroupHitboxes_get(stacks, name) ==
    IF stacks[name] = <<>> THEN None
    ELSE Some(stacks[name][Len(stacks[name])])

(* GroupHitboxes::push, div.rs:2399-2405.                                   *)
GroupHitboxes_push(stacks, name, hitbox_id) ==
    [stacks EXCEPT ![name] = Append(@, hitbox_id)]

(* Faulty variant: pop leaves the stack as it is.                           *)
GroupHitboxes_pop_Keeps(stacks, name) == stacks

(* GroupHitboxes::pop, div.rs:2407-2409.                                    *)
GroupHitboxes_pop(stacks, name) ==
    [stacks EXCEPT ![name] = SubSeq(@, 1, Len(@) - 1)]

(* Faulty variant: the group styles follow the element's own hitbox.        *)
GroupStyle_OwnHitbox(e, stacks) ==
    LET el == GroupTree[e]
    IN  [hover |-> /\ GroupHitbox(el)
                   /\ ~group_drag
                   /\ IsSome(el.group_hover)
                   /\ GroupHovered(e, group_mouse),
         active |-> group_clicked[e].group /\ IsSome(el.group_active)]

(* The group styles compute_style_internal refines into the style,          *)
(* div.rs:2281-2289 and 2334-2338, with the stacks as they are when the     *)
(* element's paint calls it, div.rs:1597.                                   *)
GroupStyle(e, stacks) ==
    LET el == GroupTree[e]
    IN  [hover |-> /\ GroupHitbox(el)
                   /\ ~group_drag
                   /\ IsSome(el.group_hover)
                   /\ LET group_hitbox_id ==
                              GroupHitboxes_get(stacks, Unwrap(el.group_hover))
                      IN  /\ IsSome(group_hitbox_id)
                          /\ GroupHovered(Unwrap(group_hitbox_id), group_mouse),
         active |-> group_clicked[e].group /\ IsSome(el.group_active)]

(* The clicked-state closure paint_mouse_listeners binds, div.rs:2104-2135, *)
(* with the stacks as they are after the element's own push: the reset      *)
(* closure for a clicked element, else the closure that captured            *)
(* active_group_hitbox.                                                     *)
GroupListener(e, stacks) ==
    LET el == GroupTree[e]
    IN  IF is_clicked(group_clicked[e])
        THEN [kind |-> "reset", hitbox |-> None]
        ELSE [kind |-> "set",
              hitbox |-> IF IsSome(el.group_active)
                         THEN GroupHitboxes_get(stacks, Unwrap(el.group_active))
                         ELSE None]

Children(e) == {c \in GroupElems : GroupTree[c].parent = e}
PaintTop == paint_path[Len(paint_path)]
FramePainted == 1 \in paint_done

(* Interactivity::paint is called for e: the root, or the next child of the *)
(* element whose paint is running, div.rs:1316-1320.                        *)
PaintCalled(e) ==
    /\ ~FramePainted
    /\ e \notin paint_done
    /\ \A i \in 1..Len(paint_path) : paint_path[i] # e
    /\ IF paint_path = <<>> THEN e = 1
       ELSE /\ GroupTree[e].parent = PaintTop
            /\ \A c \in Children(PaintTop) : c < e => c \in paint_done

(* Interactivity::paint up to the call of its children, div.rs:1590-1649:   *)
(* the style, the early return of a hidden element, the push, the           *)
(* listeners.                                                               *)
PaintEnter(e) ==
    /\ PaintCalled(e)
    /\ LET el == GroupTree[e]
           pushed == IF GroupHitbox(el) /\ IsSome(el.group)
                     THEN GroupHitboxes_push(group_hitboxes, Unwrap(el.group), e)
                     ELSE group_hitboxes
       IN  /\ group_style' = [group_style EXCEPT ![e] = GroupStyle(e, group_hitboxes)]
           /\ IF el.hidden
              THEN /\ paint_done' = paint_done \cup {e}
                   /\ group_obs' = [op |-> "hidden", elem |-> e]
                   /\ UNCHANGED <<paint_path, group_hitboxes, group_listener>>
              ELSE /\ paint_path' = Append(paint_path, e)
                   /\ group_hitboxes' = pushed
                   /\ group_listener' =
                          IF GroupHitbox(el)
                          THEN [group_listener EXCEPT ![e] = GroupListener(e, pushed)]
                          ELSE group_listener
                   /\ group_obs' = [op |-> "enter", elem |-> e]
                   /\ UNCHANGED paint_done
    /\ UNCHANGED <<group_tree, group_mouse, group_drag, group_clicked,
                   otherThanGroups>>

(* The children have been painted: the pop and the return, div.rs:1651-1655. *)
PaintExit ==
    /\ paint_path # <<>>
    /\ Children(PaintTop) \subseteq paint_done
    /\ LET e == PaintTop
           el == GroupTree[e]
       IN  /\ group_hitboxes' =
                  IF GroupHitbox(el) /\ IsSome(el.group)
                  THEN GroupHitboxes_pop(group_hitboxes, Unwrap(el.group))
                  ELSE group_hitboxes
           /\ paint_done' = paint_done \cup {e}
           /\ paint_path' = SubSeq(paint_path, 1, Len(paint_path) - 1)
           /\ group_obs' = [op |-> "exit", elem |-> e]
    /\ UNCHANGED <<group_tree, group_mouse, group_drag, group_style,
                   group_clicked, group_listener, otherThanGroups>>

(* The next frame begins: the closures of the last frame are dropped, and   *)
(* request_layout resets the clicked state during a drag, div.rs:1408-1418. *)
GroupBeginFrame ==
    /\ FramePainted
    /\ paint_done' = {}
    /\ group_listener' = [e \in GroupElems |-> NoListener]
    /\ group_clicked' = IF group_drag
                        THEN [e \in GroupElems |-> ElementClickedStateDefault]
                        ELSE group_clicked
    /\ group_obs' = [op |-> "frame", elem |-> 0]
    /\ UNCHANGED <<group_tree, group_mouse, group_drag, paint_path,
                   group_hitboxes, group_style, otherThanGroups>>

(* Events arrive between frames.                                            *)
GroupMouseMove(x) ==
    /\ FramePainted
    /\ group_mouse' = x
    /\ group_obs' = [op |-> "move", elem |-> 0]
    /\ UNCHANGED <<group_tree, group_drag, paint_path, paint_done,
                   group_hitboxes, group_style, group_clicked, group_listener,
                   otherThanGroups>>

(* The closure bound for an element that was not clicked, div.rs:2121-2134, *)
(* in the bubble phase of a mouse-down nobody prevented.                    *)
GroupClickedSet(e, listener, clicked) ==
    LET group_hovered == /\ IsSome(listener.hitbox)
                         /\ GroupHovered(Unwrap(listener.hitbox), group_mouse)
        element_hovered == GroupHovered(e, group_mouse)
    IN  IF group_hovered \/ element_hovered
        THEN [group |-> group_hovered, element |-> element_hovered]
        ELSE clicked

GroupMouseDown ==
    /\ FramePainted
    /\ group_clicked' =
           [e \in GroupElems |->
               IF group_listener[e].kind = "set"
               THEN GroupClickedSet(e, group_listener[e], group_clicked[e])
               ELSE group_clicked[e]]
    /\ group_obs' = [op |-> "down", elem |-> 0]
    /\ UNCHANGED <<group_tree, group_mouse, group_drag, paint_path, paint_done,
                   group_hitboxes, group_style, group_listener, otherThanGroups>>

(* The closure bound for a clicked element resets the state in the capture  *)
(* phase of a mouse-up, div.rs:2109-2114; the window ends the drag.         *)
GroupMouseUp ==
    /\ FramePainted
    /\ group_clicked' =
           [e \in GroupElems |->
               IF group_listener[e].kind = "reset"
               THEN ElementClickedStateDefault
               ELSE group_clicked[e]]
    /\ group_drag' = FALSE
    /\ group_obs' = [op |-> "up", elem |-> 0]
    /\ UNCHANGED <<group_tree, group_mouse, paint_path, paint_done,
                   group_hitboxes, group_style, group_listener, otherThanGroups>>

(* Some element starts a drag.                                              *)
GroupDragStart ==
    /\ FramePainted
    /\ ~group_drag
    /\ group_drag' = TRUE
    /\ group_obs' = [op |-> "drag", elem |-> 0]
    /\ UNCHANGED <<group_tree, group_mouse, paint_path, paint_done,
                   group_hitboxes, group_style, group_clicked, group_listener,
                   otherThanGroups>>

InitGroups ==
    /\ scene = 1
    /\ MouseIdle
    /\ ScrollIdle
    /\ ScrollHandleIdle
    /\ tt_config = [hoverable |-> FALSE, clickable |-> FALSE]
    /\ TooltipIdle
    /\ group_tree \in GroupTreeIds
    /\ GroupIdle
    /\ hv_config = [clickable |-> FALSE, occluded |-> FALSE]
    /\ HoverIdle
    /\ LaterIdle

NextGroups ==
    \/ \E e \in GroupElems : PaintEnter(e)
    \/ PaintExit
    \/ GroupBeginFrame
    \/ \E x \in GroupXs : GroupMouseMove(x)
    \/ GroupMouseDown
    \/ GroupMouseUp
    \/ GroupDragStart

SpecGroups == InitGroups /\ [][NextGroups]_vars

----------------------------------------------------------------------------
(* The hover listener of one element with an id.  The element's hitbox      *)
(* covers HoverElemXs; in an occluded scene a sibling painted after it has  *)
(* an occluding hitbox over OccluderXs.                                     *)

HoverElemXs == {1, 2}
OccluderXs == {2, 3}
HoverConfigs == [clickable : BOOLEAN, occluded : BOOLEAN]

(* hitbox.is_hovered(window): the pointer is inside the hitbox and no       *)
(* occluding hitbox painted after it contains the pointer.                  *)
HoverHitboxHovered(x) ==
    /\ x \in HoverElemXs
    /\ ~(hv_config.occluded /\ x \in OccluderXs)

(* Faulty variants: the hover closure without the test of the pending       *)
(* mouse-down, and the hover closure without the comparison.                *)
HoverHandler_IgnoresPending(phase, x, has_mouse_down, was_hovered) ==
    IF phase # "Bubble" THEN [hovered |-> was_hovered, calls |-> <<>>]
    ELSE LET hovered == ~hv_drag /\ HoverHitboxHovered(x)
         IN  IF hovered # was_hovered
             THEN [hovered |-> hovered, calls |-> <<hovered>>]
             ELSE [hovered |-> was_hovered, calls |-> <<>>]

HoverHandler_AlwaysCalls(phase, x, has_mouse_down, was_hovered) ==
    IF phase # "Bubble" THEN [hovered |-> was_hovered, calls |-> <<>>]
    ELSE LET hovered == ~has_mouse_down /\ ~hv_drag /\ HoverHitboxHovered(x)
         IN  [hovered |-> hovered, calls |-> <<hovered>>]

(* The hover closure, div.rs:1990-2005, in one phase of a mouse-move to x:  *)
(* the stored boolean after it, and the booleans it called the listener     *)
(* with.                                                                    *)
HoverHandler(phase, x, has_mouse_down, was_hovered) ==
    IF phase # "Bubble" THEN [hovered |-> was_hovered, calls |-> <<>>]
    ELSE LET hovered == ~has_mouse_down /\ ~hv_drag /\ HoverHitboxHovered(x)
         IN  IF hovered # was_hovered
             THEN [hovered |-> hovered, calls |-> <<hovered>>]
             ELSE [hovered |-> was_hovered, calls |-> <<>>]

(* A mouse-move to x: the closures of the last frame, capture then bubble.  *)
HvMouseMove(x) ==
    /\ hv_mouse' = x
    /\ LET capture == HoverHandler("Capture", x, hv_pending, hover_state)
           bubble == HoverHandler("Bubble", x, hv_pending, capture.hovered)
           calls == capture.calls \o bubble.calls
       IN  IF hv_painted
           THEN /\ hover_state' = bubble.hovered
                /\ hv_delivered' = IF calls = <<>> THEN hv_delivered
                                   ELSE Some(calls[Len(calls)])
                /\ hv_obs' = [op |-> "move", calls |-> calls]
           ELSE /\ hv_obs' = [op |-> "move", calls |-> <<>>]
                /\ UNCHANGED <<hover_state, hv_delivered>>
    /\ UNCHANGED <<hv_config, hv_pending, hv_drag, hv_painted, otherThanHover>>

(* A primary mouse-down where the pointer is: the arming closure of an      *)
(* element with a click listener, div.rs:1896-1908.                         *)
HvMouseDown ==
    /\ hv_pending' = IF hv_painted /\ hv_config.clickable
                         /\ HoverHitboxHovered(hv_mouse)
                     THEN TRUE ELSE hv_pending
    /\ hv_obs' = [op |-> "down", calls |-> <<>>]
    /\ UNCHANGED <<hv_config, hv_mouse, hv_drag, hv_painted, hover_state,
                   hv_delivered, otherThanHover>>

(* A mouse-up where the pointer is: the mouse-up closure empties the armed  *)
(* slot when hovered, div.rs:1956-1961, and the window ends the drag.       *)
HvMouseUp ==
    /\ hv_pending' = IF hv_painted /\ HoverHitboxHovered(hv_mouse)
                     THEN FALSE ELSE hv_pending
    /\ hv_drag' = FALSE
    /\ hv_obs' = [op |-> "up", calls |-> <<>>]
    /\ UNCHANGED <<hv_config, hv_mouse, hv_painted, hover_state, hv_delivered,
                   otherThanHover>>

(* Another element starts a drag.                                           *)
HvDragStart ==
    /\ ~hv_drag
    /\ hv_drag' = TRUE
    /\ hv_obs' = [op |-> "drag", calls |-> <<>>]
    /\ UNCHANGED <<hv_config, hv_mouse, hv_pending, hv_painted, hover_state,
                   hv_delivered, otherThanHover>>

(* A frame: request_layout empties the armed slot during a drag,            *)
(* div.rs:1408-1413, and paint binds the closures, div.rs:1979-2006.        *)
HvFrame ==
    /\ hv_painted' = TRUE
    /\ hv_pending' = IF hv_drag THEN FALSE ELSE hv_pending
    /\ hv_obs' = [op |-> "frame", calls |-> <<>>]
    /\ UNCHANGED <<hv_config, hv_mouse, hv_drag, hover_state, hv_delivered,
                   otherThanHover>>

InitHover ==
    /\ scene = 1
    /\ MouseIdle
    /\ ScrollIdle
    /\ ScrollHandleIdle
    /\ tt_config = [hoverable |-> FALSE, clickable |-> FALSE]
    /\ TooltipIdle
    /\ group_tree = 1
    /\ GroupIdle
    /\ hv_config \in HoverConfigs
    /\ HoverIdle
    /\ LaterIdle

NextHover ==
    \/ \E x \in HoverXs : HvMouseMove(x)
    \/ HvMouseDown
    \/ HvMouseUp
    \/ HvDragStart
    \/ HvFrame

SpecHover == InitHover /\ [][NextHover]_vars

----------------------------------------------------------------------------
(* The div subsystems above, idle: the initial state of every specification *)
(* below, which adds its own subsystem to it.                               *)
DivIdle ==
    /\ scene = 1
    /\ MouseIdle
    /\ ScrollIdle
    /\ ScrollHandleIdle
    /\ tt_config = [hoverable |-> FALSE, clickable |-> FALSE]
    /\ TooltipIdle
    /\ group_tree = 1
    /\ GroupIdle
    /\ hv_config = [clickable |-> FALSE, occluded |-> FALSE]
    /\ HoverIdle

----------------------------------------------------------------------------
(* Painting one configuration, possibly several times in a frame.           *)

(* The most paints of one configuration in a frame.                         *)
MaxPaints == 3

(* Faulty variant: the collections are read and left in place.              *)
Drain_Keeps(config, categories) == config

(* drain(..), mem::take and Option::take on the collections of the given    *)
(* categories, div.rs:1805-1849, 1979, 2013, 2140-2143.                     *)
Drain(config, categories) == config \ categories

(* The categories whose listeners one call of Interactivity::paint hands to *)
(* the window, div.rs:1609-1648: none for a hidden element; the mouse       *)
(* categories only with a hitbox, div.rs:1623-1646; click, drag, hover and  *)
(* tooltip only with a hitbox and an element state, div.rs:1884 and 1979    *)
(* and 2013; the keyboard categories always, div.rs:1648.                   *)
BoundByPaint(config, hitbox, element_state, hidden) ==
    IF hidden THEN {}
    ELSE (config \cap KeyCategories)
         \cup (IF hitbox THEN config \cap MouseCategories ELSE {})
         \cup (IF hitbox /\ element_state THEN config \cap StateCategories ELSE {})

(* The categories one call of Interactivity::paint takes out of the         *)
(* configuration: with a hitbox paint_mouse_listeners takes them all,       *)
(* bound or not, but a hover listener and a tooltip builder only with an    *)
(* element state.                                                           *)
TakenByPaint(hitbox, element_state, hidden) ==
    IF hidden THEN {}
    ELSE KeyCategories
         \cup (IF hitbox THEN MouseCategories \cup {"click", "drag"} ELSE {})
         \cup (IF hitbox /\ element_state THEN {"hover", "tooltip"} ELSE {})

ListenerPaint(hitbox, element_state, hidden) ==
    /\ listener_cfg.paints < MaxPaints
    /\ listener_cfg' =
           [listener_cfg EXCEPT
               !.bound = [c \in ListenerCategories |->
                             IF c \in BoundByPaint(listener_cfg.config, hitbox,
                                                   element_state, hidden)
                             THEN @[c] + 1 ELSE @[c]],
               !.config = Drain(@, TakenByPaint(hitbox, element_state, hidden)),
               !.paints = @ + 1,
               !.op = "paint"]
    /\ UNCHANGED otherThanListeners

(* The next frame: the element is declared again and the window's closures  *)
(* of the last frame are dropped.                                           *)
ListenerRebuild ==
    /\ listener_cfg.op = "paint"
    /\ listener_cfg' = [ListenerCfg(listener_cfg.declared) EXCEPT !.op = "rebuild"]
    /\ UNCHANGED otherThanListeners

InitListeners ==
    /\ DivIdle
    /\ BindingsIdle
    /\ HitboxIdle
    /\ PointerIdle
    /\ FocusIdle
    /\ AutosaveIdle
    /\ CloseIdle
    /\ DocksIdle
    /\ StyleIdle
    /\ \E declared \in SUBSET ListenerCategories :
          listener_cfg = ListenerCfg(declared)

NextListeners ==
    \/ \E hitbox \in BOOLEAN, element_state \in BOOLEAN, hidden \in BOOLEAN :
          ListenerPaint(hitbox, element_state, hidden)
    \/ ListenerRebuild

SpecListeners == InitListeners /\ [][NextListeners]_vars

----------------------------------------------------------------------------
(* Configuring the singleton bindings of one Interactivity.                 *)

(* The callbacks a caller may pass.                                         *)
MaxCallback == 2
Callbacks == 1..MaxCallback

(* Faulty variant: no assertion in any build.                               *)
Register_NoAssert(debug_assertions, slot, value) ==
    [slot |-> Some(value), panicked |-> FALSE]

(* debug_assert!(self.<slot>.is_none(), ..) followed by                     *)
(* self.<slot> = Some(..), div.rs:483-494, 507-511, 525-535, 549-559: the   *)
(* assertion exists only in a build with debug assertions.                  *)
Register(debug_assertions, slot, value) ==
    IF debug_assertions /\ IsSome(slot)
    THEN [slot |-> slot, panicked |-> TRUE]
    ELSE [slot |-> Some(value), panicked |-> FALSE]

(* Interactivity::on_hover, div.rs:503-512.                                 *)
OnHover(listener) ==
    /\ ~binding_cfg.panicked
    /\ LET r == Register(binding_cfg.debug_assertions,
                         binding_cfg.hover_listener, listener)
       IN  binding_cfg' = [binding_cfg EXCEPT
                              !.hover_listener = r.slot,
                              !.panicked = r.panicked,
                              !.op = "on_hover",
                              !.arg = Some(listener),
                              !.second = IsSome(binding_cfg.hover_listener)]
    /\ UNCHANGED otherThanBindings

(* Interactivity::tooltip, div.rs:516-535, and                              *)
(* Interactivity::hoverable_tooltip, div.rs:540-559.                        *)
Tooltip(build_tooltip, hoverable) ==
    /\ ~binding_cfg.panicked
    /\ LET r == Register(binding_cfg.debug_assertions,
                         binding_cfg.tooltip_builder,
                         [build |-> build_tooltip, hoverable |-> hoverable])
       IN  binding_cfg' = [binding_cfg EXCEPT
                              !.tooltip_builder = r.slot,
                              !.panicked = r.panicked,
                              !.op = "tooltip",
                              !.arg = Some([build |-> build_tooltip,
                                            hoverable |-> hoverable]),
                              !.second = IsSome(binding_cfg.tooltip_builder)]
    /\ UNCHANGED otherThanBindings

(* Interactivity::on_drag, div.rs:473-495.                                  *)
OnDrag(listener) ==
    /\ ~binding_cfg.panicked
    /\ LET r == Register(binding_cfg.debug_assertions,
                         binding_cfg.drag_listener, listener)
       IN  binding_cfg' = [binding_cfg EXCEPT
                              !.drag_listener = r.slot,
                              !.panicked = r.panicked,
                              !.op = "on_drag",
                              !.arg = Some(listener),
                              !.second = IsSome(binding_cfg.drag_listener)]
    /\ UNCHANGED otherThanBindings

InitBindings ==
    /\ DivIdle
    /\ ListenersIdle
    /\ HitboxIdle
    /\ PointerIdle
    /\ FocusIdle
    /\ AutosaveIdle
    /\ CloseIdle
    /\ DocksIdle
    /\ StyleIdle
    /\ \E debug_assertions \in BOOLEAN :
          binding_cfg = BindingCfg(debug_assertions)

NextBindings ==
    \/ \E listener \in Callbacks : OnHover(listener)
    \/ \E build_tooltip \in Callbacks, hoverable \in BOOLEAN :
          Tooltip(build_tooltip, hoverable)
    \/ \E listener \in Callbacks : OnDrag(listener)

SpecBindings == InitBindings /\ [][NextBindings]_vars

----------------------------------------------------------------------------
(* The hitbox decision of Interactivity::prepaint.                          *)

(* The fields should_insert_hitbox reads, div.rs:1514-1528; mouse_cursor    *)
(* is the computed style's.                                                 *)
HitboxFields ==
    {"occlude_mouse", "mouse_cursor", "group", "scroll_offset",
     "tracked_focus_handle", "hover_style", "group_hover_style",
     "mouse_up_listeners", "mouse_down_listeners", "mouse_move_listeners",
     "click_listeners", "scroll_wheel_listeners", "drag_listener",
     "drop_listeners", "tooltip_builder"}

(* Fields of an Interactivity, div.rs:1339-1393, that it does not read.     *)
OtherFields ==
    {"active_style", "group_active_style", "hover_listener",
     "key_down_listeners", "action_listeners"}

InteractivityFields == HitboxFields \cup OtherFields

(* The most fields set in one configuration.                                *)
MaxFields == 2

(* Interactivity::should_insert_hitbox, div.rs:1513-1529, over all the      *)
(* fields it reads.                                                         *)
InsertsHitbox(fields) == fields \cap HitboxFields # {}

(* Interactivity::prepaint, div.rs:1497-1501: the hitbox passed to f.       *)
HitboxPrepaint ==
    /\ hitbox_cfg.hitbox = None
    /\ hitbox_cfg' = [hitbox_cfg EXCEPT !.hitbox = Some(InsertsHitbox(hitbox_cfg.fields))]
    /\ UNCHANGED otherThanHitbox

InitHitbox ==
    /\ DivIdle
    /\ ListenersIdle
    /\ BindingsIdle
    /\ PointerIdle
    /\ FocusIdle
    /\ AutosaveIdle
    /\ CloseIdle
    /\ DocksIdle
    /\ StyleIdle
    /\ \E fields \in SUBSET InteractivityFields :
          /\ Cardinality(fields) <= MaxFields
          /\ hitbox_cfg = HitboxCfg(fields)

NextHitbox == HitboxPrepaint

SpecHitbox == InitHitbox /\ [][NextHitbox]_vars

----------------------------------------------------------------------------
(* The pointer listener wrappers of Interactivity.                          *)

(* The largest pointer position; the element's hitbox covers PointerBounds  *)
(* and an occluding hitbox painted above it, if any, covers PointerOccluder.*)
MaxPX == 3
PointerXs == 0..MaxPX
PointerBounds == {1, 2}
PointerOccluder == {2, 3}

(* The registration methods, each with the button or the drag type it is    *)
(* given.                                                                   *)
PointerWrappers ==
    [name : {"on_mouse_down", "on_mouse_up", "on_mouse_up_out"}, arg : Buttons]
    \cup [name : {"capture_any_mouse_down", "on_any_mouse_down",
                  "capture_any_mouse_up", "on_any_mouse_up",
                  "on_mouse_down_out", "on_mouse_move", "on_scroll_wheel"},
          arg : {"none"}]
    \cup [name : {"on_drag_move"}, arg : DragTypes]

PointerEvents ==
    [kind : {"down", "up"}, button : Buttons]
    \cup [kind : {"move", "scroll"}, button : {"none"}]

(* The event of the collection a wrapper pushes to; paint registers each    *)
(* collection's closures for that event, div.rs:1805-1831.                  *)
WrapperEvent(name) ==
    CASE name \in {"on_mouse_down", "capture_any_mouse_down",
                   "on_any_mouse_down", "on_mouse_down_out"} -> "down"
      [] name \in {"on_mouse_up", "capture_any_mouse_up", "on_any_mouse_up",
                   "on_mouse_up_out"} -> "up"
      [] name \in {"on_mouse_move", "on_drag_move"} -> "move"
      [] OTHER -> "scroll"

(* The phase a wrapper's closure tests for.                                 *)
WrapperPhase(name) ==
    IF name \in {"capture_any_mouse_down", "capture_any_mouse_up",
                 "on_mouse_down_out", "on_mouse_up_out", "on_drag_move"}
    THEN "Capture"
    ELSE "Bubble"

(* Faulty variant: the capture "any" wrappers do not look at the hitbox.    *)
WrapperHitboxTest_CaptureAnywhere(name) ==
    CASE name \in {"capture_any_mouse_down", "capture_any_mouse_up",
                   "on_drag_move"} -> "none"
      [] name = "on_mouse_down_out" -> "not_contains"
      [] name = "on_mouse_up_out" -> "not_hovered"
      [] OTHER -> "is_hovered"

(* What a wrapper's closure asks of its hitbox.                             *)
WrapperHitboxTest(name) ==
    CASE name = "on_drag_move" -> "none"
      [] name = "on_mouse_down_out" -> "not_contains"
      [] name = "on_mouse_up_out" -> "not_hovered"
      [] OTHER -> "is_hovered"

(* Hitbox::contains: the pointer is within the hitbox's bounds.             *)
PointerContains(x) == x \in PointerBounds

(* Hitbox::is_hovered: the hitbox is in the hit test at the pointer, which  *)
(* an occluding hitbox above it cuts short.                                 *)
PointerHovered(x, occluded) ==
    x \in PointerBounds /\ ~(occluded /\ x \in PointerOccluder)

(* The closure a wrapper pushes: whether it calls the listener for an event *)
(* of its collection in a phase, div.rs:80-266.                             *)
WrapperCalls(wrapper, event, phase, x, occluded, drag) ==
    /\ phase = WrapperPhase(wrapper.name)
    /\ wrapper.name \in {"on_mouse_down", "on_mouse_up", "on_mouse_up_out"}
          => event.button = wrapper.arg
    /\ CASE WrapperHitboxTest(wrapper.name) = "is_hovered" ->
               PointerHovered(x, occluded)
         [] WrapperHitboxTest(wrapper.name) = "not_hovered" ->
               ~PointerHovered(x, occluded)
         [] WrapperHitboxTest(wrapper.name) = "not_contains" ->
               ~PointerContains(x)
         [] OTHER -> TRUE
    /\ wrapper.name = "on_drag_move"
          => IsSome(drag) /\ Unwrap(drag).type = wrapper.arg

(* The window dispatches an event at pointer position x: the capture pass,  *)
(* then the bubble pass, to the closures registered for its kind.           *)
PointerDispatch(event, x) ==
    /\ pointer_cfg' =
          [pointer_cfg EXCEPT
             !.mouse = x,
             !.event = Some(event),
             !.calls =
                 IF event.kind = WrapperEvent(pointer_cfg.wrapper.name)
                 THEN SelectSeq(<<"Capture", "Bubble">>,
                          LAMBDA phase :
                              WrapperCalls(pointer_cfg.wrapper, event, phase, x,
                                           pointer_cfg.occluded,
                                           pointer_cfg.active_drag))
                 ELSE <<>>]
    /\ UNCHANGED otherThanPointer

(* Some element's drag listener starts a drag of a value of the given type  *)
(* at the pointer, div.rs:1915-1943.                                        *)
PointerDragStart(type) ==
    /\ pointer_cfg.active_drag = None
    /\ pointer_cfg' =
          [pointer_cfg EXCEPT
             !.active_drag = Some([type |-> type, origin |-> pointer_cfg.mouse]),
             !.event = None,
             !.calls = <<>>]
    /\ UNCHANGED otherThanPointer

(* The drag ends: the window takes the active drag on a mouse-up.           *)
PointerDragEnd ==
    /\ IsSome(pointer_cfg.active_drag)
    /\ pointer_cfg' =
          [pointer_cfg EXCEPT !.active_drag = None, !.event = None, !.calls = <<>>]
    /\ UNCHANGED otherThanPointer

InitPointer ==
    /\ DivIdle
    /\ ListenersIdle
    /\ BindingsIdle
    /\ HitboxIdle
    /\ FocusIdle
    /\ AutosaveIdle
    /\ CloseIdle
    /\ DocksIdle
    /\ StyleIdle
    /\ \E wrapper \in PointerWrappers, occluded \in BOOLEAN :
          pointer_cfg = PointerCfg(wrapper, occluded)

NextPointer ==
    \/ \E event \in PointerEvents, x \in PointerXs : PointerDispatch(event, x)
    \/ \E type \in DragTypes : PointerDragStart(type)
    \/ PointerDragEnd

SpecPointer == InitPointer /\ [][NextPointer]_vars

----------------------------------------------------------------------------
(* Focus on mouse-down.                                                     *)

(* The deepest nesting of elements.                                         *)
MaxDepth == 3

(* What an element's mouse-down listener is: none, or one registered with   *)
(* on_any_mouse_down or capture_any_mouse_down that returns, calls          *)
(* prevent_default or calls stop_propagation.                               *)
FocusListeners ==
    {"none", "bubble", "bubble_prevent_default", "bubble_stop_propagation",
     "capture_prevent_default"}

FocusElems == [focusable : BOOLEAN, listener : FocusListeners]

(* The window's state while it dispatches one event.                        *)
DispatchStart(focus) ==
    [default_prevented |-> FALSE,
     propagate |-> TRUE,
     focus |-> focus,
     focused |-> <<>>,
     called |-> <<>>]

(* Faulty variant: taking focus does not prevent default.                   *)
FocusOnMouseDown_NoPreventDefault(d, e, phase, hovered) ==
    IF phase = "Bubble" /\ hovered /\ ~d.default_prevented
    THEN [d EXCEPT !.focus = e, !.focused = Append(@, e)]
    ELSE d

(* The closure paint registers for a focus-tracked element, div.rs:1789-    *)
(* 1801.                                                                    *)
FocusOnMouseDown(d, e, phase, hovered) ==
    IF phase = "Bubble" /\ hovered /\ ~d.default_prevented
    THEN [d EXCEPT !.focus = e, !.focused = Append(@, e),
                   !.default_prevented = TRUE]
    ELSE d

(* The closure of the element's mouse-down listener: the wrapper's test,    *)
(* div.rs:101-126, then the listener.                                       *)
FocusListenerCalled(d, e, listener, phase, hovered) ==
    IF /\ hovered
       /\ phase = (IF listener = "capture_prevent_default" THEN "Capture"
                                                            ELSE "Bubble")
    THEN [d EXCEPT
            !.called = Append(@, e),
            !.default_prevented =
                @ \/ listener \in {"bubble_prevent_default",
                                    "capture_prevent_default"},
            !.propagate = @ /\ listener # "bubble_stop_propagation"]
    ELSE d

(* The closures paint_mouse_listeners registers for the chain's elements in *)
(* paint order, parents before children: an element's focus closure,        *)
(* div.rs:1789-1802, before its mouse-down listeners, div.rs:1805-1811.     *)
RECURSIVE FocusClosures(_, _)
FocusClosures(chain, e) ==
    IF e > Len(chain)
    THEN <<>>
    ELSE (IF chain[e].focusable THEN <<[kind |-> "focus", elem |-> e]>> ELSE <<>>)
         \o (IF chain[e].listener # "none"
              THEN <<[kind |-> "listener", elem |-> e]>>
              ELSE <<>>)
         \o FocusClosures(chain, e + 1)

FocusClosure(d, closure, phase) ==
    IF closure.kind = "focus"
    THEN FocusOnMouseDown(d, closure.elem, phase,
                          closure.elem <= focus_cfg.hover_depth)
    ELSE FocusListenerCalled(d, closure.elem,
                             focus_cfg.chain[closure.elem].listener, phase,
                             closure.elem <= focus_cfg.hover_depth)

(* One pass of the window over its mouse listeners, until one of them stops *)
(* propagation.                                                             *)
RECURSIVE FocusPass(_, _, _)
FocusPass(closures, d, phase) ==
    IF closures = <<>> \/ ~d.propagate
    THEN d
    ELSE FocusPass(Tail(closures), FocusClosure(d, Head(closures), phase), phase)

RECURSIVE FocusReverse(_)
FocusReverse(s) ==
    IF s = <<>> THEN <<>> ELSE Append(FocusReverse(Tail(s)), Head(s))

(* The window dispatches a mouse-down: the capture pass over the listeners  *)
(* in registration order, then the bubble pass in reverse order.            *)
FocusMouseDown ==
    LET closures == FocusClosures(focus_cfg.chain, 1)
        captured == FocusPass(closures, DispatchStart(focus_cfg.focus), "Capture")
        bubbled == FocusPass(FocusReverse(closures), captured, "Bubble")
    IN  /\ focus_cfg' = [focus_cfg EXCEPT !.focus = bubbled.focus,
                                          !.dispatched = TRUE,
                                          !.focused = bubbled.focused,
                                          !.called = bubbled.called]
        /\ UNCHANGED otherThanFocus

(* The pointer moves over another prefix of the chain.                      *)
FocusMouseMove(depth) ==
    /\ depth <= Len(focus_cfg.chain)
    /\ depth # focus_cfg.hover_depth
    /\ focus_cfg' = [focus_cfg EXCEPT !.hover_depth = depth,
                                      !.dispatched = FALSE,
                                      !.focused = <<>>,
                                      !.called = <<>>]
    /\ UNCHANGED otherThanFocus

InitFocus ==
    /\ DivIdle
    /\ ListenersIdle
    /\ BindingsIdle
    /\ HitboxIdle
    /\ PointerIdle
    /\ AutosaveIdle
    /\ CloseIdle
    /\ DocksIdle
    /\ StyleIdle
    /\ \E n \in 1..MaxDepth :
          \E chain \in [1..n -> FocusElems] :
              focus_cfg = FocusCfg(chain, 0)

NextFocus ==
    \/ FocusMouseDown
    \/ \E depth \in 0..MaxDepth : FocusMouseMove(depth)

SpecFocus == InitFocus /\ [][NextFocus]_vars

----------------------------------------------------------------------------
(* Autosave of the workspace's items.                                       *)

(* AutosaveSetting; AfterDelay's milliseconds are AutosaveDelay ticks.      *)
AutosaveSettings == {"off", "after_delay", "on_focus_change", "on_window_change"}
AutosaveDelay == 2

(* The most saves of one item.                                              *)
MaxSaves == 2

(* Pane::autosave_item: a dirty item is saved, which leaves it clean.       *)
autosave_item(item) ==
    IF item.is_dirty
    THEN [is_dirty |-> FALSE, save_count |-> item.save_count + 1]
    ELSE item

(* Faulty variant: the earlier task is not cancelled.                       *)
fire_new_KeepsPrevious(timers, delay) == timers \cup {delay}

(* DelayedDebouncedEditAction::fire_new, workspace.rs:646-676: the timers   *)
(* of the tasks that will still call func. The earlier task is sent the     *)
(* cancellation and returns at its select; the new task waits for delay.    *)
fire_new(timers, delay) == {delay}

(* Faulty variant: only OnWindowChange saves when the window deactivates.   *)
AutosavesOnDeactivation_WindowChangeOnly(autosave) == autosave = "on_window_change"

(* The test of on_window_activation_changed, workspace.rs:3994-3997.        *)
AutosavesOnDeactivation(autosave) ==
    autosave \in {"on_window_change", "on_focus_change"}

(* The test of the on_blur handler, item.rs:801.                            *)
AutosavesOnBlur(autosave) == autosave = "on_focus_change"

(* The item is edited and emits ItemEvent::Edit, item.rs:769-792.           *)
AutosaveEdit(i) ==
    /\ autosave_cfg.items[i].save_count < MaxSaves
    /\ autosave_cfg' =
          [autosave_cfg EXCEPT
             !.items[i].is_dirty = TRUE,
             !.pending_autosave[i] =
                 IF autosave_cfg.autosave = "after_delay"
                 THEN fire_new(@, AutosaveDelay)
                 ELSE @,
             !.since_edit[i] = Some(0),
             !.saves_since_edit[i] = 0,
             !.watched[i] = IF @ = None THEN Some([age |-> 0, saves |-> 0]) ELSE @]
    /\ UNCHANGED otherThanAutosave

(* One tick of the clock: the timers run down, and a task whose timer has   *)
(* elapsed calls Pane::autosave_item, workspace.rs:660-674.                 *)
AutosaveTick ==
    LET fires(i) == 1 \in autosave_cfg.pending_autosave[i]
        saves(i) == fires(i) /\ autosave_cfg.items[i].is_dirty
        count(i) == IF saves(i) THEN 1 ELSE 0
    IN  /\ \E i \in AutosaveItems :
              \/ autosave_cfg.pending_autosave[i] # {}
              \/ autosave_cfg.watched[i] # None
              \/ /\ IsSome(autosave_cfg.since_edit[i])
                 /\ Unwrap(autosave_cfg.since_edit[i]) <= AutosaveDelay
        /\ autosave_cfg' =
              [autosave_cfg EXCEPT
                 !.items = [i \in AutosaveItems |->
                               IF fires(i) THEN autosave_item(@[i]) ELSE @[i]],
                 !.pending_autosave =
                     [i \in AutosaveItems |-> {t - 1 : t \in @[i] \ {1}}],
                 !.since_edit =
                     [i \in AutosaveItems |->
                         IF IsSome(@[i]) /\ Unwrap(@[i]) <= AutosaveDelay
                         THEN Some(Unwrap(@[i]) + 1)
                         ELSE @[i]],
                 !.saves_since_edit =
                     [i \in AutosaveItems |->
                         IF IsSome(autosave_cfg.since_edit[i])
                         THEN @[i] + count(i)
                         ELSE @[i]],
                 !.watched =
                     [i \in AutosaveItems |->
                         IF IsSome(@[i]) /\ Unwrap(@[i]).age < AutosaveDelay
                         THEN Some([age |-> Unwrap(@[i]).age + 1,
                                    saves |-> Unwrap(@[i]).saves + count(i)])
                         ELSE None]]
        /\ UNCHANGED otherThanAutosave

(* Workspace::on_window_activation_changed, workspace.rs:3978-4004, after   *)
(* the window lost its activation: every item of every pane.                *)
AutosaveWindowDeactivated ==
    /\ autosave_cfg.window_active
    /\ autosave_cfg' =
          [autosave_cfg EXCEPT
             !.window_active = FALSE,
             !.items = [i \in AutosaveItems |->
                           IF AutosavesOnDeactivation(autosave_cfg.autosave)
                           THEN autosave_item(@[i])
                           ELSE @[i]],
             !.saves_since_edit =
                 [i \in AutosaveItems |->
                     IF /\ AutosavesOnDeactivation(autosave_cfg.autosave)
                        /\ autosave_cfg.items[i].is_dirty
                     THEN @[i] + 1
                     ELSE @[i]]]
    /\ UNCHANGED otherThanAutosave

(* Workspace::on_window_activation_changed, workspace.rs:3979-3986, after   *)
(* the window was activated.                                                *)
AutosaveWindowActivated ==
    /\ ~autosave_cfg.window_active
    /\ autosave_cfg' = [autosave_cfg EXCEPT !.window_active = TRUE]
    /\ UNCHANGED otherThanAutosave

(* The focus moves to item `to` (0: to no item); the item that had it is    *)
(* blurred and its on_blur handler runs, item.rs:798-807.                   *)
AutosaveFocus(to) ==
    LET from == autosave_cfg.focused
        saves == /\ from # 0
                 /\ AutosavesOnBlur(autosave_cfg.autosave)
    IN  /\ to # from
        /\ autosave_cfg' =
              [autosave_cfg EXCEPT
                 !.focused = to,
                 !.items = [i \in AutosaveItems |->
                               IF saves /\ i = from THEN autosave_item(@[i])
                                                     ELSE @[i]],
                 !.saves_since_edit =
                     [i \in AutosaveItems |->
                         IF saves /\ i = from /\ autosave_cfg.items[i].is_dirty
                         THEN @[i] + 1
                         ELSE @[i]]]
        /\ UNCHANGED otherThanAutosave

InitAutosave ==
    /\ DivIdle
    /\ ListenersIdle
    /\ BindingsIdle
    /\ HitboxIdle
    /\ PointerIdle
    /\ FocusIdle
    /\ CloseIdle
    /\ DocksIdle
    /\ StyleIdle
    /\ \E autosave \in AutosaveSettings : autosave_cfg = AutosaveCfg(autosave)

NextAutosave ==
    \/ \E i \in AutosaveItems : AutosaveEdit(i)
    \/ AutosaveTick
    \/ AutosaveWindowDeactivated
    \/ AutosaveWindowActivated
    \/ \E to \in AutosaveItems \cup {0} : AutosaveFocus(to)

SpecAutosave == InitAutosave /\ [][NextAutosave]_vars

----------------------------------------------------------------------------
(* Closing the workspace's window.                                          *)

(* The most items in the workspace's panes.                                 *)
MaxCloseItems == 2

(* An item: dirty or not, able to serialize itself or not, and a singleton  *)
(* or an item with project entries or neither.                              *)
CloseItems == [is_dirty : BOOLEAN, serializable : BOOLEAN, has_entries : BOOLEAN]

(* The answers to a prompt, by the position of the button.                  *)
PromptAnswers == 0..2

(* What save_all_internal does with the answer to its "Save all / Discard   *)
(* all / Cancel" prompt, workspace.rs:1899-1903: the save intent it goes on *)
(* with. Any other answer than the first two, Cancel among them, falls      *)
(* through with the intent unchanged.                                       *)
AnswerToSaveAll(save_intent, answer) ==
    CASE answer = 0 -> "SaveAll"
      [] answer = 1 -> "Skip"
      [] OTHER -> save_intent

(* The loop of save_all_internal over the dirty items, workspace.rs:1911-   *)
(* 1934, up to the prompt of Pane::save_item or to its end: the state the   *)
(* task stops in. Pane::save_item prompts for a dirty item when the intent  *)
(* is Close, saves it when the intent is SaveAll or Save, and returns at    *)
(* once when the intent is Skip.                                            *)
RECURSIVE SaveLoop(_, _, _)
SaveLoop(cfg, dirty_items, save_intent) ==
    IF dirty_items = <<>>
    THEN [cfg EXCEPT !.prompt = "none", !.dirty_items = <<>>,
                     !.save_intent = save_intent, !.result = Some(TRUE)]
    ELSE LET ix == Head(dirty_items) IN
         IF ~cfg.items[ix].has_entries \/ save_intent = "Skip"
         THEN SaveLoop(cfg, Tail(dirty_items), save_intent)
         ELSE IF save_intent = "Close"
         THEN [cfg EXCEPT !.prompt = "save_item", !.dirty_items = dirty_items,
                          !.save_intent = save_intent, !.prompts = @ + 1]
         ELSE SaveLoop([cfg EXCEPT !.saved = @ \cup {ix}],
                       Tail(dirty_items), save_intent)

(* save_all_internal(SaveIntent::Close), workspace.rs:1842-1909: the dirty  *)
(* items that cannot serialize themselves remain; more than one of them     *)
(* raises the prompt for all.                                               *)
save_all_internal(cfg) ==
    LET dirty == SelectSeq([ix \in 1..Len(cfg.items) |-> ix],
                           LAMBDA ix : cfg.items[ix].is_dirty)
        remaining == SelectSeq(dirty, LAMBDA ix : ~cfg.items[ix].serializable)
    IN  IF cfg.disconnected
        THEN [cfg EXCEPT !.prompt = "none", !.result = Some(TRUE)]
        ELSE IF Len(remaining) > 1
        THEN [cfg EXCEPT !.prompt = "save_all", !.dirty_items = remaining,
                         !.prompts = @ + 1]
        ELSE SaveLoop(cfg, remaining, "Close")

(* Workspace::prepare_to_close, workspace.rs:1725-1789, up to its first     *)
(* prompt: in a call, the prompt to leave it.                               *)
PrepareToClose ==
    /\ close_cfg.prompt = "none"
    /\ close_cfg.result = None
    /\ close_cfg' =
          IF close_cfg.in_call
          THEN [close_cfg EXCEPT !.prompt = "leave_call", !.prompts = @ + 1]
          ELSE save_all_internal(close_cfg)
    /\ UNCHANGED otherThanClose

(* The user answers the prompt to leave the call, workspace.rs:1762-1769.   *)
AnswerLeaveCall(answer) ==
    /\ close_cfg.prompt = "leave_call"
    /\ close_cfg' =
          IF answer = 1
          THEN [close_cfg EXCEPT !.prompt = "none", !.result = Some(FALSE)]
          ELSE save_all_internal([close_cfg EXCEPT !.prompt = "none"])
    /\ UNCHANGED otherThanClose

(* The user answers the prompt for all the dirty items, workspace.rs:1899-  *)
(* 1903.                                                                    *)
AnswerSaveAll(answer) ==
    LET answered == [close_cfg EXCEPT !.cancelled = @ \/ answer = 2]
    IN  /\ close_cfg.prompt = "save_all"
        /\ close_cfg' =
              SaveLoop(answered, close_cfg.dirty_items,
                       AnswerToSaveAll(close_cfg.save_intent, answer))
        /\ UNCHANGED otherThanClose

(* The user answers Pane::save_item's prompt for one dirty item: save,      *)
(* don't save, or cancel, upon which save_item returns false and            *)
(* save_all_internal resolves to false, workspace.rs:1919-1931.             *)
AnswerSaveItem(answer) ==
    LET ix == Head(close_cfg.dirty_items) IN
    /\ close_cfg.prompt = "save_item"
    /\ close_cfg' =
          CASE answer = 2 ->
                 [close_cfg EXCEPT !.prompt = "none", !.dirty_items = <<>>,
                                   !.result = Some(FALSE), !.cancelled = TRUE]
            [] answer = 0 ->
                 SaveLoop([close_cfg EXCEPT !.saved = @ \cup {ix}],
                          Tail(close_cfg.dirty_items), close_cfg.save_intent)
            [] OTHER ->
                 SaveLoop(close_cfg, Tail(close_cfg.dirty_items),
                          close_cfg.save_intent)
    /\ UNCHANGED otherThanClose

InitClose ==
    /\ DivIdle
    /\ ListenersIdle
    /\ BindingsIdle
    /\ HitboxIdle
    /\ PointerIdle
    /\ FocusIdle
    /\ AutosaveIdle
    /\ DocksIdle
    /\ StyleIdle
    /\ \E n \in 0..MaxCloseItems :
          \E items \in [1..n -> CloseItems], in_call \in BOOLEAN,
             disconnected \in BOOLEAN :
              close_cfg = CloseCfg(items, in_call, disconnected)

NextClose ==
    \/ PrepareToClose
    \/ \E answer \in PromptAnswers :
          \/ AnswerLeaveCall(answer)
          \/ AnswerSaveAll(answer)
          \/ AnswerSaveItem(answer)

SpecClose == InitClose /\ [][NextClose]_vars

----------------------------------------------------------------------------
(* The workspace's docks.                                                   *)

(* Faulty variant: was_visible is the dock's open state alone.              *)
was_visible_IgnoresZoom(is_open, zoomed, dock_side) == is_open

(* toggle_dock's was_visible, workspace.rs:2283-2284: the dock is open and  *)
(* nothing else is zoomed.                                                  *)
was_visible(is_open, zoomed, dock_side) ==
    is_open /\ ~(zoomed # "none" /\ zoomed # dock_side)

(* What the dock's observer makes of Workspace::zoomed after the dock at    *)
(* position d was opened or closed: an open dock's zoomed panel is the      *)
(* zoomed item, a closed dock's panel is not.                               *)
DockObserved(cfg, d) ==
    [cfg EXCEPT !.zoomed =
        IF cfg.docks[d].is_open /\ cfg.docks[d].active_panel
              /\ cfg.docks[d].panel_zoomed /\ cfg.focus = d
        THEN d
        ELSE IF ~cfg.docks[d].is_open /\ @ = d THEN "none" ELSE @]

(* Workspace::dismiss_zoomed_items_to_reveal, workspace.rs:2427-2465;       *)
(* dock_to_reveal is a position or "none".                                  *)
dismiss_zoomed_items_to_reveal(cfg, dock_to_reveal) ==
    LET hidden == {d \in DockPositions :
                      /\ d # dock_to_reveal
                      /\ cfg.docks[d].active_panel
                      /\ cfg.docks[d].panel_zoomed}
        zoomed_position == IF cfg.zoomed \in DockPositions THEN cfg.zoomed
                                                            ELSE "none"
    IN  [cfg EXCEPT
           !.pane_zoomed = @ /\ dock_to_reveal = "none",
           !.docks = [d \in DockPositions |->
                         IF d \in hidden THEN [@[d] EXCEPT !.is_open = FALSE]
                                          ELSE @[d]],
           !.focus = IF @ \in hidden THEN "center" ELSE @,
           !.zoomed = IF zoomed_position # dock_to_reveal THEN "none" ELSE @]

(* Workspace::toggle_dock, workspace.rs:2274-2310.                          *)
ToggleDock(dock_side) ==
    LET dock == dock_cfg.docks[dock_side]
        visible == was_visible(dock.is_open, dock_cfg.zoomed, dock_side)
        focus_center == dock.active_panel /\ visible /\ dock_cfg.focus = dock_side
        reveal_dock == dock.active_panel /\ ~visible
        toggled == [dock_cfg EXCEPT
                      !.docks[dock_side].is_open = ~visible,
                      !.focus = IF reveal_dock THEN dock_side ELSE @]
        revealed == IF reveal_dock
                    THEN dismiss_zoomed_items_to_reveal(toggled, dock_side)
                    ELSE toggled
        focused == IF focus_center THEN [revealed EXCEPT !.focus = "center"]
                                   ELSE revealed
    IN  /\ dock_cfg' = [DockObserved(focused, dock_side) EXCEPT !.op = dock_side]
        /\ UNCHANGED otherThanDocks

(* The center pane takes the focus: Workspace::handle_pane_focused,         *)
(* workspace.rs:2985-3012.                                                  *)
HandlePaneFocused ==
    LET dismissed == dismiss_zoomed_items_to_reveal(
                         [dock_cfg EXCEPT !.focus = "center"], "none")
    IN  /\ dock_cfg' = [dismissed EXCEPT
                           !.zoomed = IF dismissed.pane_zoomed THEN "pane"
                                                               ELSE "none",
                           !.op = "pane_focused"]
        /\ UNCHANGED otherThanDocks

(* pane::Event::ZoomIn of the active pane, workspace.rs:3093-3102.          *)
PaneZoomIn ==
    /\ ~dock_cfg.pane_zoomed
    /\ dock_cfg' = [dock_cfg EXCEPT
                      !.pane_zoomed = TRUE,
                      !.zoomed = IF dock_cfg.focus = "center" THEN "pane" ELSE @,
                      !.op = "zoom_in"]
    /\ UNCHANGED otherThanDocks

(* pane::Event::ZoomOut, workspace.rs:3103-3110.                            *)
PaneZoomOut ==
    /\ dock_cfg.pane_zoomed
    /\ dock_cfg' = [dock_cfg EXCEPT
                      !.pane_zoomed = FALSE,
                      !.zoomed = IF @ \in DockPositions THEN @ ELSE "none",
                      !.op = "zoom_out"]
    /\ UNCHANGED otherThanDocks

(* The focused panel of an open dock zooms in and becomes the workspace's   *)
(* zoomed item.                                                             *)
PanelZoomIn(d) ==
    /\ dock_cfg.docks[d].is_open
    /\ dock_cfg.docks[d].active_panel
    /\ ~dock_cfg.docks[d].panel_zoomed
    /\ dock_cfg.focus = d
    /\ dock_cfg' = [dock_cfg EXCEPT
                      !.docks[d].panel_zoomed = TRUE,
                      !.zoomed = d,
                      !.op = "panel_zoom_in"]
    /\ UNCHANGED otherThanDocks

InitDocks ==
    /\ DivIdle
    /\ ListenersIdle
    /\ BindingsIdle
    /\ HitboxIdle
    /\ PointerIdle
    /\ FocusIdle
    /\ AutosaveIdle
    /\ CloseIdle
    /\ StyleIdle
    /\ \E has_panel \in SUBSET DockPositions : dock_cfg = DockCfg(has_panel)

NextDocks ==
    \/ \E dock_side \in DockPositions : ToggleDock(dock_side)
    \/ HandlePaneFocused
    \/ PaneZoomIn
    \/ PaneZoomOut
    \/ \E d \in DockPositions : PanelZoomIn(d)

SpecDocks == InitDocks /\ [][NextDocks]_vars

----------------------------------------------------------------------------
(* The style of an element in the three phases of a frame.                  *)

(* The style refinements of an Interactivity besides base_style,            *)
(* div.rs:1359-1369.                                                        *)
StyleFields ==
    {"in_focus_style", "focus_style", "hover_style", "group_hover_style",
     "active_style", "group_active_style", "drag_over_styles",
     "group_drag_over_styles"}

(* What can hold of the window and the element's state when a style is      *)
(* computed: the focus is within or on the element's handle, the element    *)
(* has no focus handle or no element state, a hitbox was inserted for       *)
(* another reason than its styles, the pointer is over its hitbox or its    *)
(* group's, a drag of the styles' type or of another is active, the         *)
(* can-drop predicate refuses, the clicked state's flags are set.           *)
StyleFacts ==
    {"within_focused", "is_focused", "no_focus_handle", "no_element_state",
     "hitbox", "hovered", "group_hovered", "drag", "drag_of_other_type",
     "cannot_drop", "clicked_element", "clicked_group"}

(* The most style fields set and the most facts holding at once.            *)
MaxStyleFields == 2
MaxStyleFacts == 3

(* Faulty variant: the pointer-dependent refinements do not wait for a      *)
(* hitbox.                                                                  *)
compute_style_internal_WithoutHitbox(hitbox, fields, facts) ==
    {"base_style"}
    \cup {f \in fields \cap {"in_focus_style"} :
             "no_focus_handle" \notin facts /\ "within_focused" \in facts}
    \cup {f \in fields \cap {"focus_style"} :
             "no_focus_handle" \notin facts /\ "is_focused" \in facts}
    \cup {f \in fields \cap {"group_hover_style"} :
             facts \cap {"drag", "drag_of_other_type"} = {}
                 /\ "group_hovered" \in facts}
    \cup {f \in fields \cap {"hover_style"} :
             facts \cap {"drag", "drag_of_other_type"} = {}
                 /\ "hovered" \in facts}
    \cup {f \in fields \cap {"group_drag_over_styles"} :
             {"drag", "group_hovered"} \subseteq facts
                 /\ "cannot_drop" \notin facts}
    \cup {f \in fields \cap {"drag_over_styles"} :
             {"drag", "hovered"} \subseteq facts /\ "cannot_drop" \notin facts}
    \cup {f \in fields \cap {"group_active_style"} :
             "no_element_state" \notin facts /\ "clicked_group" \in facts}
    \cup {f \in fields \cap {"active_style"} :
             "no_element_state" \notin facts /\ "clicked_element" \in facts}

(* Interactivity::compute_style_internal, div.rs:2257-2348: the refinements *)
(* the style is made of; hitbox tells whether the caller passed one.        *)
compute_style_internal(hitbox, fields, facts) ==
    {"base_style"}
    \cup {f \in fields \cap {"in_focus_style"} :
             "no_focus_handle" \notin facts /\ "within_focused" \in facts}
    \cup {f \in fields \cap {"focus_style"} :
             "no_focus_handle" \notin facts /\ "is_focused" \in facts}
    \cup {f \in fields \cap {"group_hover_style"} :
             hitbox /\ facts \cap {"drag", "drag_of_other_type"} = {}
                 /\ "group_hovered" \in facts}
    \cup {f \in fields \cap {"hover_style"} :
             hitbox /\ facts \cap {"drag", "drag_of_other_type"} = {}
                 /\ "hovered" \in facts}
    \cup {f \in fields \cap {"group_drag_over_styles"} :
             hitbox /\ {"drag", "group_hovered"} \subseteq facts
                 /\ "cannot_drop" \notin facts}
    \cup {f \in fields \cap {"drag_over_styles"} :
             hitbox /\ {"drag", "hovered"} \subseteq facts
                 /\ "cannot_drop" \notin facts}
    \cup {f \in fields \cap {"group_active_style"} :
             "no_element_state" \notin facts /\ "clicked_group" \in facts}
    \cup {f \in fields \cap {"active_style"} :
             "no_element_state" \notin facts /\ "clicked_element" \in facts}

(* Whether prepaint inserted a hitbox, div.rs:1513-1529: for a hover or a   *)
(* group-hover style, or for another of the function's reasons.             *)
StyleHitbox ==
    \/ style_cfg.fields \cap {"hover_style", "group_hover_style"} # {}
    \/ "hitbox" \in style_cfg.facts

(* Interactivity::request_layout, div.rs:1450: no hitbox.                   *)
StyleRequestLayout ==
    /\ style_cfg.phase \in {"none", "paint"}
    /\ style_cfg' = [style_cfg EXCEPT
                       !.phase = "request_layout",
                       !.style = compute_style_internal(FALSE, style_cfg.fields,
                                                        style_cfg.facts)]
    /\ UNCHANGED otherThanStyle

(* Interactivity::prepaint, div.rs:1476: no hitbox.                         *)
StylePrepaint ==
    /\ style_cfg.phase = "request_layout"
    /\ style_cfg' = [style_cfg EXCEPT
                       !.phase = "prepaint",
                       !.style = compute_style_internal(FALSE, style_cfg.fields,
                                                        style_cfg.facts)]
    /\ UNCHANGED otherThanStyle

(* Interactivity::paint, div.rs:1597: the hitbox prepaint passed on.        *)
StylePaint ==
    /\ style_cfg.phase = "prepaint"
    /\ style_cfg' = [style_cfg EXCEPT
                       !.phase = "paint",
                       !.style = compute_style_internal(StyleHitbox,
                                                        style_cfg.fields,
                                                        style_cfg.facts)]
    /\ UNCHANGED otherThanStyle

InitStyle ==
    /\ DivIdle
    /\ ListenersIdle
    /\ BindingsIdle
    /\ HitboxIdle
    /\ PointerIdle
    /\ FocusIdle
    /\ AutosaveIdle
    /\ CloseIdle
    /\ DocksIdle
    /\ \E fields \in SUBSET StyleFields, facts \in SUBSET StyleFacts :
          /\ Cardinality(fields) <= MaxStyleFields
          /\ Cardinality(facts) <= MaxStyleFacts
          /\ ~({"drag", "drag_of_other_type"} \subseteq facts)
          /\ style_cfg = StyleCfg(fields, facts)

NextStyle ==
    \/ StyleRequestLayout
    \/ StylePrepaint
    \/ StylePaint

SpecStyle == InitStyle /\ [][NextStyle]_vars

----------------------------------------------------------------------------
(* Vocabulary of the properties.                                            *)

ClickCalls(calls, e) ==
    SelectSeq(calls, LAMBDA c : c.what = "click" /\ c.elem = e)

DropCalls(calls) == SelectSeq(calls, LAMBDA c : c.what = "drop")

AllClickCalls(calls) == SelectSeq(calls, LAMBDA c : c.what = "click")

HasState(e) == Config(e).id /\ should_insert_hitbox(e)

GestureOpen == IsSome(gesture) /\ ~Unwrap(gesture).ended
GestureEnded == IsSome(gesture) /\ Unwrap(gesture).ended

(* The clicks one mouse-up fires on e for the mouse-down `down`: one per    *)
(* click listener, in order, each carrying that down and that up.           *)
ExpectedClicks(e, down, up) ==
    [i \in 1..Config(e).click_listeners |->
        [what |-> "click", elem |-> e, listener |-> i, down |-> down,
         up |-> up, phase |-> "Bubble"]]

----------------------------------------------------------------------------
----------------------------------------------------------------------------
(* C2 (as stated): when a gesture that never went past the threshold ends   *)
(* with a mouse-up on the hitbox of a clickable element its mouse-down      *)
(* landed on, each click listener of the element has been invoked exactly   *)
(* once, with that mouse-down and that mouse-up.                            *)
C2_AsStated ==
    \A e \in Elems :
        ( /\ last.kind = "up" /\ GestureEnded /\ ~Unwrap(gesture).exceeded
          /\ HasState(e) /\ Config(e).click_listeners > 0
          /\ is_hovered(e, Unwrap(gesture).down.position)
          /\ is_hovered(e, mouse_position) )
        => \E b \in Buttons :
              ClickCalls(last.calls, e) =
                  ExpectedClicks(e, Unwrap(gesture).down,
                                 MouseUpEvent(mouse_position, b))

(* C2 (amended): the same, provided that no drag is active when the         *)
(* mouse-up arrives (a frame painted during a drag resets the armed slot)   *)
(* and that no listener stops the propagation of that mouse-up.             *)
C2_ClickFiresOnce ==
    [][ \A e \in Elems :
          ( /\ last'.kind = "up" /\ GestureOpen /\ ~Unwrap(gesture).exceeded
            /\ HasState(e) /\ Config(e).click_listeners > 0
            /\ is_hovered(e, Unwrap(gesture).down.position)
            /\ is_hovered(e, mouse_position')
            /\ ~IsSome(active_drag)
            /\ last'.propagate_event )
          => \E b \in Buttons :
                ClickCalls(last'.calls, e) =
                    ExpectedClicks(e, Unwrap(gesture).down,
                                   MouseUpEvent(mouse_position', b))
      ]_vars

(* C2 witness: a short gesture has just ended on an element with two click  *)
(* listeners, and both listeners were called once.                          *)
C2_Witness ==
    /\ last.kind = "up" /\ GestureEnded /\ ~Unwrap(gesture).exceeded
    /\ last.propagate_event
    /\ \E e \in Elems :
          /\ Config(e).click_listeners = 2
          /\ is_hovered(e, mouse_position)
          /\ is_hovered(e, Unwrap(gesture).down.position)
          /\ Len(ClickCalls(last.calls, e)) = 2
          /\ ClickCalls(last.calls, e)[1].down = Unwrap(gesture).down
          /\ ClickCalls(last.calls, e)[1].up.position = mouse_position

----------------------------------------------------------------------------
(* C3 (as stated): every click that fires carries a mouse-up of the button  *)
(* of its mouse-down, landing on the hitbox the mouse-down landed on.       *)
C3_AsStated ==
    \A i \in DOMAIN last.calls :
        last.calls[i].what = "click"
        => /\ last.calls[i].up.button = last.calls[i].down.button
           /\ is_hovered(last.calls[i].elem, last.calls[i].up.position)
           /\ is_hovered(last.calls[i].elem, last.calls[i].down.position)

----------------------------------------------------------------------------
(* C4: while the active-drag slot is occupied no step starts another drag:  *)
(* the slot keeps its payload until it is emptied, and no move closure      *)
(* starts a drag.                                                           *)
C4_OneActiveDrag ==
    [][ IsSome(active_drag)
        => /\ active_drag' = active_drag \/ active_drag' = None
           /\ DragStarter(last'.calls) = None
      ]_vars

(* C4 witness: a drag is active, another element is still armed, and the    *)
(* pointer has just moved past the threshold from that element's mouse-down *)
(* without a second drag starting.                                          *)
C4_Witness ==
    /\ IsSome(active_drag)
    /\ last.kind = "move" /\ last.calls = <<>>
    /\ \E e \in Elems :
          /\ e # Unwrap(active_drag).value.from
          /\ IsSome(Config(e).drag) /\ drag_listener[e]
          /\ IsSome(pending_mouse_down[e])
          /\ ExceedsThreshold(mouse_position, Unwrap(pending_mouse_down[e]).position)

----------------------------------------------------------------------------
(* C5: a drag starts only in a mouse-move, from an element that has a drag  *)
(* binding and was armed, with no drag active, the move being strictly      *)
(* farther than DRAG_THRESHOLD from the recorded mouse-down; the step       *)
(* empties that element's armed slot, resets its clicked state and stops    *)
(* the propagation of the move.                                             *)
C5_DragStart ==
    [][ (IsSome(active_drag') /\ active_drag' # active_drag)
        => /\ last'.kind = "move"
           /\ ~IsSome(active_drag)
           /\ LET e == Unwrap(active_drag').value.from IN
                /\ Config(e).drag = Some(Unwrap(active_drag').value.type)
                /\ IsSome(pending_mouse_down[e])
                /\ MagnitudeSq(mouse_position', Unwrap(pending_mouse_down[e]).position)
                      > DRAG_THRESHOLD * DRAG_THRESHOLD
                /\ pending_mouse_down'[e] = None
                /\ clicked_state'[e] = ElementClickedStateDefault
                /\ ~last'.propagate_event
      ]_vars

(* C5 witness: a drag has just started from an element whose clicked state  *)
(* the mouse-down had set.                                                  *)
C5_Witness ==
    /\ last.kind = "move" /\ IsSome(DragStarter(last.calls))
    /\ IsSome(active_drag)
    /\ Unwrap(active_drag).value.from = Unwrap(DragStarter(last.calls))
    /\ ~last.propagate_event
    /\ GestureOpen /\ Unwrap(gesture).exceeded
    /\ clicked_state[Unwrap(active_drag).value.from] = ElementClickedStateDefault
    /\ \E f \in Elems : is_clicked(clicked_state[f])

----------------------------------------------------------------------------
(* C6 (as stated): once a mouse-up has been dispatched, no element is left  *)
(* with its armed slot set.                                                 *)
C6_AsStated ==
    last.kind = "up" => \A e \in Elems : pending_mouse_down[e] = None

----------------------------------------------------------------------------
(* C7 (as stated): a mouse-down dispatched while a drag is active leaves no *)
(* element armed or clicked.                                                *)
C7_AsStated ==
    (last.kind = "down" /\ IsSome(active_drag))
    => \A e \in Elems : /\ pending_mouse_down[e] = None
                        /\ clicked_state[e] = ElementClickedStateDefault

(* C7 (amended): it is the frame painted while a drag is active that        *)
(* resets the armed slot and the clicked state of every element; the        *)
(* mouse-up that follows such a frame fires no click.                       *)
C7_FrameResetsDuringDrag ==
    [][ /\ (last'.kind = "frame" /\ IsSome(active_drag'))
            => \A e \in Elems : /\ pending_mouse_down'[e] = None
                                /\ clicked_state'[e] = ElementClickedStateDefault
        /\ (last.kind = "frame" /\ IsSome(active_drag) /\ last'.kind = "up")
            => AllClickCalls(last'.calls) = <<>>
      ]_vars

(* C7 witness: a frame has just been painted during a drag, after a         *)
(* mouse-down had armed an element during that drag.                        *)
C7_Witness ==
    /\ last.kind = "frame" /\ IsSome(active_drag)
    /\ GestureOpen /\ Unwrap(gesture).drag_from = None
    /\ \E e \in Elems :
          /\ HasState(e) /\ Config(e).click_listeners > 0
          /\ is_hovered(e, Unwrap(gesture).down.position)
          /\ pending_mouse_down[e] = None

----------------------------------------------------------------------------
(* Vocabulary of the drop properties.                                       *)

ListensFor(e, type) ==
    \E i \in DOMAIN Config(e).drop_listeners : Config(e).drop_listeners[i] = type

Accepts(e, type) ==
    ~IsSome(Config(e).can_drop) \/ type \in Unwrap(Config(e).can_drop)

(* The hovered elements with a drop listener for the payload's type.        *)
Matching(p, type) == {e \in Elems : is_hovered(e, p) /\ ListensFor(e, type)}

(* Of a non-empty set of elements, the one painted last: the bubble pass    *)
(* reaches it first.                                                        *)
Innermost(S) == CHOOSE e \in S : \A f \in S : f <= e

(* A listener painted after e stops the propagation of a mouse-up at p.     *)
StoppedBefore(e, p) ==
    \E f \in Elems : f > e /\ is_hovered(f, p) /\ Config(f).mouse_up = "stop"

(* C8: whenever a drop listener is invoked, it is by a mouse-up, with the   *)
(* payload of the active drag, the active-drag slot is empty afterwards,    *)
(* propagation of the mouse-up has been stopped, and no listener receives   *)
(* the event after it; and a mouse-up reaching a hovered element whose drop *)
(* listener matches and whose predicate allows the drop does invoke it.     *)
C8_SuccessfulDrop ==
    [][ /\ \A i \in DOMAIN last'.calls :
              last'.calls[i].what = "drop"
              => /\ last'.kind = "up"
                 /\ IsSome(active_drag)
                 /\ last'.calls[i].value = Unwrap(active_drag).value
                 /\ active_drag' = None
                 /\ ~last'.propagate_event
                 /\ i = Len(last'.calls)
        /\ (last'.kind = "up" /\ IsSome(active_drag))
           => LET type == Unwrap(active_drag).value.type
                  M == Matching(mouse_position', type)
              IN  (/\ M # {}
                   /\ Accepts(Innermost(M), type)
                   /\ ~StoppedBefore(Innermost(M), mouse_position'))
                  => /\ DropCalls(last'.calls) # <<>>
                     /\ DropCalls(last'.calls)[1].elem = Innermost(M)
      ]_vars

(* C8 witness: a drop listener has just received the payload on an element  *)
(* that also has a mouse-up listener, which did not receive the event.      *)
C8_Witness ==
    /\ last.kind = "up" /\ active_drag = None /\ ~last.propagate_event
    /\ Len(last.calls) = 1
    /\ last.calls[1].what = "drop"
    /\ Config(last.calls[1].elem).mouse_up = "pass"
    /\ is_hovered(last.calls[1].elem, mouse_position)

----------------------------------------------------------------------------
(* C9 (as stated): on a mouse-up during a drag every hovered element with a *)
(* drop listener for the payload's type whose predicate does not veto       *)
(* receives the payload.                                                    *)
C9_AsStated ==
    [][ (last'.kind = "up" /\ IsSome(active_drag))
        => \A e \in Matching(mouse_position', Unwrap(active_drag).value.type) :
              Accepts(e, Unwrap(active_drag).value.type)
              => \E i \in DOMAIN last'.calls :
                    /\ last'.calls[i].what = "drop"
                    /\ last'.calls[i].elem = e
      ]_vars

(* C9 (amended): on a mouse-up during a drag only the hovered element the   *)
(* bubble pass reaches first among those with a drop listener for the       *)
(* payload's type can receive the payload: it does, in the bubble phase,    *)
(* unless its predicate vetoes or propagation was stopped before it, and    *)
(* its drop or veto consumes the drag.  A listener for another type, an     *)
(* element that is not hovered and the capture phase never receive it, and  *)
(* nothing is dropped without an active drag.                               *)
C9_DropDelivery ==
    [][ /\ \A i \in DOMAIN last'.calls :
              last'.calls[i].what = "drop"
              => /\ last'.kind = "up" /\ IsSome(active_drag)
                 /\ LET c == last'.calls[i]
                        type == Unwrap(active_drag).value.type
                    IN  /\ c.phase = "Bubble"
                        /\ is_hovered(c.elem, mouse_position')
                        /\ Config(c.elem).drop_listeners[c.listener] = type
                        /\ Accepts(c.elem, type)
                        /\ c.value = Unwrap(active_drag).value
                        /\ c.elem = Innermost(Matching(mouse_position', type))
        /\ (last'.kind = "up" /\ IsSome(active_drag))
           => LET type == Unwrap(active_drag).value.type
                  M == Matching(mouse_position', type)
              IN  (M # {} /\ ~StoppedBefore(Innermost(M), mouse_position'))
                  => IF Accepts(Innermost(M), type)
                     THEN \E i \in DOMAIN last'.calls :
                             /\ last'.calls[i].what = "drop"
                             /\ last'.calls[i].elem = Innermost(M)
                     ELSE DropCalls(last'.calls) = <<>>
      ]_vars

(* C9 witness: the payload has just been dropped on the inner of two        *)
(* hovered elements that both listen for its type; the inner one also has a *)
(* listener for another type, which was not called.                         *)
C9_Witness ==
    /\ last.kind = "up"
    /\ Len(DropCalls(last.calls)) = 1
    /\ LET c == DropCalls(last.calls)[1] IN
          /\ Len(Config(c.elem).drop_listeners) = 2
          /\ c.listener = 2
          /\ \E e \in Elems :
                /\ e < c.elem
                /\ is_hovered(e, mouse_position)
                /\ ListensFor(e, c.value.type)

----------------------------------------------------------------------------
(* C10: after a prepaint each component of the scroll offset lies between   *)
(* -(max(0, content + padding - bounds)) and 0, and is 0 on an axis where   *)
(* content plus padding fits within the bounds; with bounds 100x50, content *)
(* 400x50 and no padding the offset (-500, 0) becomes (-300, 0).            *)
C10_ClampedAfterPrepaint ==
    scroll_last.op = "prepaint"
    => LET g == scroll_geom
           pw == g.style.padding.left + g.style.padding.right
           ph == g.style.padding.top + g.style.padding.bottom
           over_w == g.content_size.width + pw - g.bounds.w
           over_h == g.content_size.height + ph - g.bounds.h
       IN  /\ (IF over_w > 0 THEN -over_w ELSE 0) <= scroll_offset.x
           /\ scroll_offset.x <= 0
           /\ (IF over_h > 0 THEN -over_h ELSE 0) <= scroll_offset.y
           /\ scroll_offset.y <= 0
           /\ (over_w <= 0 => scroll_offset.x = 0)
           /\ (over_h <= 0 => scroll_offset.y = 0)
           /\ (/\ g.bounds.w = 100 /\ g.bounds.h = 50
               /\ g.content_size = [width |-> 400, height |-> 50]
               /\ pw = 0 /\ ph = 0
               /\ scroll_last.before = [x |-> -500, y |-> 0])
              => scroll_offset = [x |-> -300, y |-> 0]

(* C10 witness: the prepaint of the example has just clamped (-500, 0).     *)
C10_Witness ==
    /\ scroll_last = [op |-> "prepaint", before |-> [x |-> -500, y |-> 0]]
    /\ scroll_geom.bounds.w = 100 /\ scroll_geom.bounds.h = 50
    /\ scroll_geom.content_size = [width |-> 400, height |-> 50]
    /\ scroll_geom.style.padding = [left |-> 0, right |-> 0, top |-> 0, bottom |-> 0]
    /\ scroll_offset = [x |-> -300, y |-> 0]

----------------------------------------------------------------------------
(* Vocabulary of the ScrollHandle properties.                               *)

Requested == Unwrap(scroll_handle.requested_scroll_top)

(* The children lie one below the other, each starting where the one before *)
(* it ends.                                                                 *)
VerticallyStacked(children) ==
    /\ \A i \in DOMAIN children : children[i].h > 0
    /\ \A i \in 1..(Len(children) - 1) : Top(children[i + 1]) = Bottom(children[i])

(* C11 (as stated): every prepaint of the scroll-tracked element leaves the *)
(* pending scroll-to-child request empty.                                   *)
C11_AsStated ==
    [][ scroll_last'.op = "prepaint"
        => scroll_handle'.requested_scroll_top = None ]_vars

(* C11 (amended): a prepaint of the scroll-tracked element with at least    *)
(* one child consumes a pending request: the request is empty afterwards,   *)
(* and if child ix exists the offset, before the clamp, puts the child's    *)
(* top at the container's top plus px; a prepaint of the element without    *)
(* children leaves the request pending.                                     *)
C11_RequestConsumed ==
    [][ scroll_last'.op = "prepaint"
        => IF scroll_obs'.children = Some(0)
           THEN scroll_handle'.requested_scroll_top
                    = scroll_handle.requested_scroll_top
           ELSE /\ scroll_handle'.requested_scroll_top = None
                /\ (/\ IsSome(scroll_handle.requested_scroll_top)
                    /\ Requested.ix < Len(scroll_handle'.child_bounds))
                   => /\ IsSome(scroll_obs'.resolved)
                      /\ Top(scroll_handle'.child_bounds[Requested.ix + 1])
                             + Unwrap(scroll_obs'.resolved).y
                         = Top(scroll_handle'.bounds) + Requested.px
      ]_vars

(* C11 witness: a prepaint has just resolved a request for the second of    *)
(* three children, 20 pixels into it, and emptied the request.              *)
C11_Witness ==
    /\ scroll_last.op = "prepaint"
    /\ scroll_obs.request = Some([ix |-> 1, px |-> -20])
    /\ Len(scroll_handle.child_bounds) = 3
    /\ scroll_handle.requested_scroll_top = None
    /\ scroll_offset.y # scroll_last.before.y
    /\ Top(scroll_handle.child_bounds[2]) + scroll_offset.y
           = Top(scroll_handle.bounds) - 20

----------------------------------------------------------------------------
(* C12 (as stated): when logical_scroll_top is called right after a prepaint *)
(* that resolved set_logical_scroll_top(ix, px) for vertically stacked      *)
(* children, with -height(ix) < px <= 0 and without clamping the offset, it *)
(* returns (ix, px).                                                        *)
C12_AsStated ==
    [][ ( /\ scroll_last.op = "prepaint"
          /\ scroll_last'.op = "logical_scroll_top"
          /\ IsSome(scroll_obs.request)
          /\ Unwrap(scroll_obs.request).ix < Len(scroll_handle.child_bounds)
          /\ VerticallyStacked(scroll_handle.child_bounds)
          /\ Unwrap(scroll_obs.request).px <= 0
          /\ Unwrap(scroll_obs.request).px >
                 -(scroll_handle.child_bounds[Unwrap(scroll_obs.request).ix + 1].h)
          /\ scroll_offset = Unwrap(scroll_obs.resolved) )
        => scroll_obs'.result = Some(Unwrap(scroll_obs.request))
      ]_vars

----------------------------------------------------------------------------
(* With offset off, the span lo..hi lies inside blo..bhi.                   *)
AxisVisible(off, lo, hi, blo, bhi) == lo + off >= blo /\ hi + off <= bhi

(* What scroll_to_item promises on one axis: an axis that does not scroll   *)
(* keeps its offset; a child that is already fully visible keeps it; a      *)
(* child that fits is fully visible afterwards, and no offset nearer to the *)
(* old one would do.                                                        *)
AxisScrolledToItem(scrolls, off, off2, lo, hi, blo, bhi) ==
    /\ ~scrolls => off2 = off
    /\ AxisVisible(off, lo, hi, blo, bhi) => off2 = off
    /\ (scrolls /\ hi - lo <= bhi - blo)
       => /\ AxisVisible(off2, lo, hi, blo, bhi)
          /\ \A o \in (off + 1)..(off2 - 1) \cup (off2 + 1)..(off - 1) :
                ~AxisVisible(o, lo, hi, blo, bhi)

(* C13: scroll_to_item(ix) changes nothing for an index without recorded    *)
(* child bounds; otherwise, on each axis, it leaves the offset alone if the *)
(* axis does not scroll or the child is already fully visible, and if the   *)
(* axis scrolls and the child fits in the container it moves the offset by  *)
(* the least amount that makes the child fully visible.                     *)
C13_ScrollToItem ==
    [][ (scroll_last'.op = "scroll_to_item" /\ IsSome(scroll_obs'.item))
        => LET ix == Unwrap(scroll_obs'.item)
               state == scroll_handle
           IN  IF ix >= Len(state.child_bounds)
               THEN scroll_offset' = scroll_offset
               ELSE LET c == state.child_bounds[ix + 1] IN
                    /\ AxisScrolledToItem(state.overflow.x = "Scroll",
                                          scroll_offset.x, scroll_offset'.x,
                                          c.x, c.x + c.w,
                                          state.bounds.x,
                                          state.bounds.x + state.bounds.w)
                    /\ AxisScrolledToItem(state.overflow.y = "Scroll",
                                          scroll_offset.y, scroll_offset'.y,
                                          c.y, c.y + c.h,
                                          state.bounds.y,
                                          state.bounds.y + state.bounds.h)
      ]_vars

(* C13 witness: scroll_to_item has just brought the third child, which was  *)
(* below the container, fully into view by aligning its bottom edge.        *)
C13_Witness ==
    /\ scroll_last.op = "scroll_to_item"
    /\ scroll_obs.item = Some(2)
    /\ Len(scroll_handle.child_bounds) = 3
    /\ scroll_handle.bounds.h = 100
    /\ scroll_last.before.y = 0
    /\ scroll_offset.y < 0
    /\ Bottom(scroll_handle.child_bounds[3]) + scroll_offset.y
           = Bottom(scroll_handle.bounds)

----------------------------------------------------------------------------
(* C14 (as stated): whenever a tooltip is built into the slot, the pointer  *)
(* is over the element and has been over it for at least TOOLTIP_DELAY      *)
(* without leaving it and without a mouse-down.                             *)
C14_AsStated ==
    [][ (~IsBuilt(active_tooltip) /\ IsBuilt(active_tooltip'))
        => /\ ElemHovered(tt_mouse)
           /\ tt_obs.hover_for >= TOOLTIP_DELAY
      ]_vars

(* C15 (as stated): a delay task is put into the slot only with no pending  *)
(* mouse-down on the element and no active drag; and a mouse-down, a        *)
(* scroll, or a move that leaves the element empties a slot that holds a    *)
(* task.                                                                    *)
C15_AsStated ==
    [][ /\ (~IsScheduled(active_tooltip) /\ IsScheduled(active_tooltip'))
            => (~tt_pending /\ ~tt_drag)
        /\ ( /\ IsScheduled(active_tooltip)
             /\ \/ tt_obs'.op \in {"down", "scroll"}
                \/ tt_obs'.op = "move" /\ ~ElemHovered(tt_mouse') )
            => active_tooltip' = None
      ]_vars

(* The tooltip in the slot is the one the last frame painted.               *)
TooltipShowing ==
    /\ IsBuilt(active_tooltip)
    /\ tooltip_id = Some(Unwrap(Unwrap(active_tooltip).tooltip).mouse_position)

(* C16: while a tooltip is showing, a mouse-move, mouse-down or scroll with *)
(* the pointer over the tooltip's region and off the element leaves the     *)
(* slot as it is when the tooltip is hoverable, and empties it when the     *)
(* tooltip is not hoverable.                                                *)
C16_HoverableTooltipStays ==
    [][ ( /\ TooltipShowing
          /\ tt_obs'.op \in {"move", "down", "scroll"}
          /\ TooltipIsHovered(tt_mouse')
          /\ ~ElemHovered(tt_mouse') )
        => IF tt_config.hoverable
           THEN active_tooltip' = active_tooltip
           ELSE active_tooltip' = None
      ]_vars

C16_Witness ==
    /\ tt_config.hoverable
    /\ TooltipShowing
    /\ TooltipIsHovered(tt_mouse)
    /\ ~ElemHovered(tt_mouse)
    /\ tt_obs.op = "down"

----------------------------------------------------------------------------
(* The elements declared in the group `name` whose paint is running,        *)
(* outermost first.                                                         *)
GroupedBeingPainted(name) ==
    SelectSeq(paint_path, LAMBDA e : GroupTree[e].group = Some(name))

(* C17: at every point of the paint pass the stack of a group name holds    *)
(* exactly the elements of that group whose paint is running, innermost     *)
(* last, and every stack is empty once the root's paint has returned.       *)
C17_GroupStacksBalanced ==
    /\ \A name \in GroupNames : group_hitboxes[name] = GroupedBeingPainted(name)
    /\ FramePainted => \A name \in GroupNames : group_hitboxes[name] = <<>>

C17_Witness ==
    /\ group_tree = 1
    /\ paint_path = <<1, 2, 3>>
    /\ group_hitboxes["a"] = <<1, 2>>

----------------------------------------------------------------------------
(* The nearest element declared in the group `name` among e and the         *)
(* elements enclosing it, and among the elements enclosing it only.         *)
RECURSIVE NearestInGroup(_, _)
NearestInGroup(e, name) ==
    IF e = 0 THEN None
    ELSE IF GroupTree[e].group = Some(name) THEN Some(e)
    ELSE NearestInGroup(GroupTree[e].parent, name)

NearestEnclosing(e, name) == NearestInGroup(GroupTree[e].parent, name)

EnclosingHovered(e, name) ==
    /\ IsSome(NearestEnclosing(e, name))
    /\ GroupHovered(Unwrap(NearestEnclosing(e, name)), group_mouse)

(* This step is the paint of e.                                             *)
PaintedNow(e) == group_obs'.op \in {"enter", "hidden"} /\ group_obs'.elem = e

----------------------------------------------------------------------------
(* C19 (as stated): once the element's closures are bound, its hover        *)
(* boolean is true iff the pointer is inside its hitbox and under no        *)
(* occluding hitbox painted over it.                                        *)
C19_AsStated ==
    hv_painted => (hover_state <=> HoverHitboxHovered(hv_mouse))

(* C19 (amended): the hover boolean is the value the listener was last      *)
(* called with (false before any call); it changes only in a mouse-move the *)
(* element's hover closure handles, and after such a move it is true iff    *)
(* the element has no pending mouse-down, no drag is active, and the        *)
(* pointer is inside the hitbox and under no occluding hitbox.              *)
C19_HoverBoolean ==
    [][ /\ (hv_obs'.op = "move" /\ hv_painted)
           => (hover_state' <=> /\ ~hv_pending
                                /\ ~hv_drag
                                /\ HoverHitboxHovered(hv_mouse'))
        /\ ~(hv_obs'.op = "move" /\ hv_painted) => hover_state' = hover_state
        /\ hover_state' = (hv_delivered' = Some(TRUE))
        /\ hv_delivered' # None \/ ~hover_state'
      ]_vars

C19_Witness ==
    /\ hv_obs.op = "move"
    /\ hv_painted
    /\ hv_pending
    /\ HoverHitboxHovered(hv_mouse)
    /\ ~hover_state
    /\ hv_delivered = Some(FALSE)

(* C20: the hover listener is first called with true, and every later call  *)
(* carries the negation of the value of the call before it.                 *)
C20_HoverAlternates ==
    [][ /\ Len(hv_obs'.calls) <= 1
        /\ \A i \in 1..Len(hv_obs'.calls) :
              hv_obs'.calls[i] = IF hv_delivered = None THEN TRUE
                                 ELSE ~Unwrap(hv_delivered)
      ]_vars

C20_Witness ==
    /\ hv_obs.calls = <<FALSE>>
    /\ hv_delivered = Some(FALSE)
    /\ HoverHitboxHovered(hv_mouse)
    /\ hv_drag

----------------------------------------------------------------------------
(* C21: the listeners of no category are bound more than once in a frame,   *)
(* only declared listeners are bound, and a paint binds nothing of a        *)
(* category that an earlier paint of the frame has bound.                   *)
C21_ListenersBoundOnce ==
    [][ \A c \in ListenerCategories :
          /\ listener_cfg'.bound[c] <= 1
          /\ listener_cfg'.bound[c] = 1 => c \in listener_cfg.declared
          /\ (listener_cfg'.op = "paint" /\ listener_cfg.bound[c] = 1)
             => listener_cfg'.bound[c] = 1
      ]_vars

C21_Witness ==
    /\ listener_cfg.op = "paint"
    /\ listener_cfg.paints = 2
    /\ listener_cfg.declared = ListenerCategories
    /\ listener_cfg.config = {}
    /\ \A c \in ListenerCategories : listener_cfg.bound[c] = 1

----------------------------------------------------------------------------
(* The slots of the three singleton bindings.                               *)
BindingSlots(cfg) == <<cfg.hover_listener, cfg.tooltip_builder, cfg.drag_listener>>

(* The slot the last registration was for.                                  *)
BindingSlotOf(cfg, op) ==
    CASE op = "on_hover" -> cfg.hover_listener
      [] op = "tooltip" -> cfg.tooltip_builder
      [] op = "on_drag" -> cfg.drag_listener
      [] OTHER -> None

(* C22 (as stated): registering a hover, tooltip or drag binding on a       *)
(* configuration that holds one already fails with an assertion, and no     *)
(* slot ever holds more than one binding.                                   *)
C22_AsStated ==
    [][ /\ binding_cfg'.second => binding_cfg'.panicked
        /\ \A i \in 1..3 : Len(BindingSlots(binding_cfg')[i]) <= 1
      ]_vars

(* C22 (amended): in a build with debug assertions a second registration    *)
(* fails and leaves the slots as they were; in a build without them it      *)
(* does not fail and the new binding replaces the old one.  In both builds  *)
(* a first registration succeeds and no slot holds more than one binding.   *)
C22_SecondRegistration ==
    [][ /\ (binding_cfg'.second /\ binding_cfg.debug_assertions)
           => /\ binding_cfg'.panicked
              /\ BindingSlots(binding_cfg') = BindingSlots(binding_cfg)
        /\ (binding_cfg'.second /\ ~binding_cfg.debug_assertions)
           => /\ ~binding_cfg'.panicked
              /\ BindingSlotOf(binding_cfg', binding_cfg'.op) = binding_cfg'.arg
        /\ ~binding_cfg'.second
           => /\ ~binding_cfg'.panicked
              /\ BindingSlotOf(binding_cfg', binding_cfg'.op) = binding_cfg'.arg
        /\ \A i \in 1..3 : Len(BindingSlots(binding_cfg')[i]) <= 1
      ]_vars

C22_Witness ==
    /\ binding_cfg.second
    /\ binding_cfg.op = "tooltip"
    /\ binding_cfg.debug_assertions
    /\ binding_cfg.panicked
    /\ IsSome(binding_cfg.tooltip_builder)

----------------------------------------------------------------------------
(* What the claim counts as a need for mouse discrimination: pointer,       *)
(* click, scroll or drop listeners, a drag or tooltip binding, a style      *)
(* that depends on hover or on the active state, scrolling, occlusion,      *)
(* group membership.                                                        *)
NeedsMouseDiscrimination(fields) ==
    fields \cap {"mouse_up_listeners", "mouse_down_listeners",
                 "mouse_move_listeners", "click_listeners",
                 "scroll_wheel_listeners", "drop_listeners", "drag_listener",
                 "tooltip_builder", "hover_style", "group_hover_style",
                 "active_style", "group_active_style", "scroll_offset",
                 "occlude_mouse", "group"} # {}

(* C23 (as stated): prepaint inserts a hitbox exactly for the elements that *)
(* need mouse discrimination.                                               *)
C23_AsStated ==
    IsSome(hitbox_cfg.hitbox)
        => (Unwrap(hitbox_cfg.hitbox) <=> NeedsMouseDiscrimination(hitbox_cfg.fields))

----------------------------------------------------------------------------
(* The wrappers that register a bubble-phase pointer listener, and the      *)
(* capture-phase "any" wrappers.                                            *)
BubbleWrappers ==
    {"on_mouse_down", "on_any_mouse_down", "on_mouse_up", "on_any_mouse_up",
     "on_mouse_move", "on_scroll_wheel"}

CaptureAnyWrappers == {"capture_any_mouse_down", "capture_any_mouse_up"}

(* The listener's event has been dispatched to the element's closures.      *)
PointerDelivered ==
    /\ IsSome(pointer_cfg.event)
    /\ Unwrap(pointer_cfg.event).kind = WrapperEvent(pointer_cfg.wrapper.name)

PointerHoveredNow == PointerHovered(pointer_cfg.mouse, pointer_cfg.occluded)

(* The bubble-phase half, which both statements share: a bubble listener    *)
(* is called at most once, in the bubble pass, and exactly when the hitbox  *)
(* is hovered and its button, if it has one, is the event's.               *)
BubbleListenersNeedHover ==
    (PointerDelivered /\ pointer_cfg.wrapper.name \in BubbleWrappers)
        => pointer_cfg.calls =
             IF /\ PointerHoveredNow
                /\ pointer_cfg.wrapper.arg \in
                     {"none", Unwrap(pointer_cfg.event).button}
             THEN <<"Bubble">>
             ELSE <<>>

(* C24 (as stated): bubble listeners need the hitbox hovered; the capture   *)
(* "any" listeners are called for every event of their kind, hovered or not.*)
C24_AsStated ==
    /\ BubbleListenersNeedHover
    /\ (PointerDelivered /\ pointer_cfg.wrapper.name \in CaptureAnyWrappers)
          => pointer_cfg.calls = <<"Capture">>

(* C24 (amended): bubble listeners need the hitbox hovered, and so do the   *)
(* capture "any" listeners: they are called in the capture pass, for any    *)
(* button, exactly when the hitbox is hovered.                              *)
C24_PointerListenersNeedHover ==
    /\ BubbleListenersNeedHover
    /\ (PointerDelivered /\ pointer_cfg.wrapper.name \in CaptureAnyWrappers)
          => pointer_cfg.calls =
               IF PointerHoveredNow THEN <<"Capture">> ELSE <<>>

(* A mouse-down outside the hitbox has been dispatched to an element with a *)
(* capture_any_mouse_down listener, which was not called.                   *)
C24_Witness ==
    /\ pointer_cfg.wrapper.name = "capture_any_mouse_down"
    /\ PointerDelivered
    /\ pointer_cfg.mouse = 0
    /\ pointer_cfg.calls = <<>>

(* C26 (as stated): an on_drag_move::<T> listener is called for every       *)
(* mouse-move exactly while a drag of type T is active that was started     *)
(* with this element under the pointer.                                     *)
C26_AsStated ==
    (PointerDelivered /\ pointer_cfg.wrapper.name = "on_drag_move")
        => pointer_cfg.calls =
             IF /\ IsSome(pointer_cfg.active_drag)
                /\ Unwrap(pointer_cfg.active_drag).type = pointer_cfg.wrapper.arg
                /\ PointerHovered(Unwrap(pointer_cfg.active_drag).origin,
                                  pointer_cfg.occluded)
             THEN <<"Capture">>
             ELSE <<>>

----------------------------------------------------------------------------
(* The hovered elements of the chain, those of them that are focusable and  *)
(* the innermost of these (0 if there is none).                             *)
FocusHovered == 1..focus_cfg.hover_depth

HoveredFocusable == {e \in FocusHovered : focus_cfg.chain[e].focusable}

InnermostFocusable ==
    IF HoveredFocusable = {}
    THEN 0
    ELSE CHOOSE e \in HoveredFocusable : \A o \in HoveredFocusable : o <= e

FocusListenerIs(e, listeners) == focus_cfg.chain[e].listener \in listeners

(* The hovered element whose listener stops propagation and runs first in   *)
(* the bubble pass (0 if there is none).                                    *)
FirstStop ==
    LET stops == {e \in FocusHovered : FocusListenerIs(e, {"bubble_stop_propagation"})}
    IN  IF stops = {} THEN 0 ELSE CHOOSE e \in stops : \A o \in stops : o <= e

(* A listener that ran before the innermost focusable element's focus       *)
(* closure called prevent default: a capture listener, or a bubble listener *)
(* of that element or of one inside it.                                     *)
PreventedEarlier ==
    \E e \in FocusHovered :
        \/ FocusListenerIs(e, {"capture_prevent_default"})
        \/ /\ FocusListenerIs(e, {"bubble_prevent_default"})
           /\ e >= InnermostFocusable
           /\ e > FirstStop

(* The bubble pass was stopped before it reached the innermost focusable    *)
(* element's focus closure.                                                 *)
StoppedEarlier == FirstStop # 0 /\ FirstStop >= InnermostFocusable

----------------------------------------------------------------------------
AutosavedBy(i) ==
    /\ autosave_cfg'.items[i].save_count = autosave_cfg.items[i].save_count + 1
    /\ ~autosave_cfg'.items[i].is_dirty

----------------------------------------------------------------------------
(* C29 (as stated): out of a call, prepare_to_close resolves to true        *)
(* without a prompt when no item is dirty or every dirty item can be        *)
(* serialized; once the user has cancelled a save prompt it has resolved to *)
(* false and no prompt is pending.                                          *)
C29_AsStated ==
    /\ (/\ ~close_cfg.in_call
        /\ close_cfg.prompts = 0
        /\ IsSome(close_cfg.result)
        /\ \A ix \in 1..Len(close_cfg.items) :
               close_cfg.items[ix].is_dirty => close_cfg.items[ix].serializable)
          => close_cfg.result = Some(TRUE)
    /\ (/\ ~close_cfg.in_call
        /\ \A ix \in 1..Len(close_cfg.items) :
               close_cfg.items[ix].is_dirty => close_cfg.items[ix].serializable)
          => close_cfg.prompts = 0
    /\ close_cfg.cancelled
          => close_cfg.prompt = "none" /\ close_cfg.result = Some(FALSE)

----------------------------------------------------------------------------
(* The focus clauses of the claim, for a step that toggles the dock at      *)
(* position d: a dock the step opens gives the focus to its active panel,   *)
(* and a dock the step closes whose active panel held the focus passes it   *)
(* to the center pane.                                                      *)
ToggleFocus(d) ==
    /\ (/\ ~dock_cfg.docks[d].is_open
        /\ dock_cfg'.docks[d].is_open
        /\ dock_cfg.docks[d].active_panel)
          => dock_cfg'.focus = d
    /\ (/\ dock_cfg.docks[d].is_open
        /\ ~dock_cfg'.docks[d].is_open
        /\ dock_cfg.docks[d].active_panel
        /\ dock_cfg.focus = d)
          => dock_cfg'.focus = "center"

(* C30 (as stated): every toggle_dock flips the dock's open state; opening  *)
(* a dock with an active panel focuses the panel, closing a dock whose      *)
(* active panel held the focus focuses the center pane.                     *)
C30_AsStated ==
    [][\A d \in DockPositions :
          dock_cfg'.op = d =>
              /\ dock_cfg'.docks[d].is_open = ~dock_cfg.docks[d].is_open
              /\ ToggleFocus(d)
    ]_vars

(* Something other than the dock at position d is zoomed: the center pane   *)
(* or the panel of another dock.                                            *)
OtherIsZoomed(d) == dock_cfg.zoomed \notin {"none", d}

(* C30 (amended): toggle_dock flips the dock's open state unless the dock   *)
(* is open while something else is zoomed: then it stays open, its active   *)
(* panel takes the focus and the zoom is dismissed. The focus clauses hold  *)
(* as stated.                                                               *)
C30_ToggleDock ==
    [][\A d \in DockPositions :
          dock_cfg'.op = d =>
              /\ dock_cfg'.docks[d].is_open =
                   IF OtherIsZoomed(d) THEN TRUE ELSE ~dock_cfg.docks[d].is_open
              /\ ToggleFocus(d)
              /\ (OtherIsZoomed(d) /\ dock_cfg.docks[d].is_open
                    /\ dock_cfg.docks[d].active_panel)
                    => /\ dock_cfg'.focus = d
                       /\ dock_cfg'.zoomed \in {"none", d}
                       /\ ~dock_cfg'.pane_zoomed
    ]_vars

(* The right dock, open behind the zoomed center pane, has been toggled: it *)
(* is still open, its panel has the focus and the pane is no longer zoomed. *)
C30_Witness ==
    /\ dock_cfg.op = "Right"
    /\ dock_cfg.docks["Right"].is_open
    /\ dock_cfg.docks["Right"].active_panel
    /\ dock_cfg.focus = "Right"
    /\ ~dock_cfg.pane_zoomed
    /\ dock_cfg.zoomed = "none"
    /\ ~dock_cfg.docks["Left"].is_open
    /\ dock_cfg.docks["Bottom"].is_open

----------------------------------------------------------------------------
(* The refinements that depend on where the pointer is.                     *)
PointerRefinements ==
    {"hover_style", "group_hover_style", "drag_over_styles",
     "group_drag_over_styles"}

(* C31: the style of request-layout and of prepaint holds no hover,         *)
(* group-hover, drag-over or group-drag-over refinement, wherever the       *)
(* pointer is, and is the same in both; a style that holds one was          *)
(* computed in paint, with a hitbox.                                        *)
C31_LayoutStyleIgnoresPointer ==
    /\ style_cfg.phase \in {"request_layout", "prepaint"}
          => /\ style_cfg.style \cap PointerRefinements = {}
             /\ style_cfg.style =
                  compute_style_internal(FALSE, style_cfg.fields,
                                         style_cfg.facts \ {"hovered", "group_hovered", "drag",
                                                            "drag_of_other_type", "cannot_drop", "hitbox"})
    /\ style_cfg.style \cap PointerRefinements # {}
          => style_cfg.phase = "paint" /\ StyleHitbox

(* Prepaint has computed the style of an element with a hover style and an  *)
(* active style, hovered and clicked: the active style is in it, the hover  *)
(* style is not.                                                            *)
C31_Witness ==
    /\ style_cfg.phase = "prepaint"
    /\ style_cfg.fields = {"hover_style", "active_style"}
    /\ {"hovered", "clicked_element"} \subseteq style_cfg.facts
    /\ style_cfg.style = {"base_style", "active_style"}

----------------------------------------------------------------------------
(* C32 (as stated): once a mouse-up has been dispatched, no element's       *)
(* clicked state is set, whether or not a frame was painted between the     *)
(* mouse-down that set it and the mouse-up.                                 *)
C32_AsStated ==
    (last.kind = "up" /\ ~panicked)
        => \A e \in Elems : ~is_clicked(clicked_state[e])

----------------------------------------------------------------------------
(* The calls of the mouse-up listener of element e.                         *)
MouseUpCalls(calls, e) ==
    SelectSeq(calls, LAMBDA c : c.what = "mouse_up" /\ c.elem = e)

(* C33: when a mouse-up during a drag reaches the drop closure of a hovered *)
(* element with a drop listener for the payload's type, the active-drag     *)
(* slot is empty afterwards whether the can-drop predicate accepted or      *)
(* vetoed; on a veto no drop listener of any element is invoked, so the     *)
(* drag is consumed, and propagation is not stopped by the drop closure:    *)
(* the propagation flag stays set unless a mouse-up listener clears it, and *)
(* a dispatch that runs to its end delivers the mouse-up to the mouse-up    *)
(* listeners of the hovered elements up to the first that stops it.         *)
C33_VetoConsumesDrag ==
    [][ (last'.kind = "up" /\ IsSome(active_drag))
        => LET type == Unwrap(active_drag).value.type
               p == mouse_position'
               M == Matching(p, type)
           IN  (M # {} /\ ~StoppedBefore(Innermost(M), p))
               => /\ active_drag' = None
                  /\ ~Accepts(Innermost(M), type)
                     => /\ DropCalls(last'.calls) = <<>>
                        /\ \A f \in Elems :
                              (/\ ~panicked'
                               /\ f <= Innermost(M)
                               /\ is_hovered(f, p)
                               /\ Config(f).mouse_up # "none"
                               /\ ~StoppedBefore(f, p))
                              => MouseUpCalls(last'.calls, f) # <<>>
                        /\ (\A f \in Elems :
                               is_hovered(f, p) => Config(f).mouse_up # "stop")
                           => last'.propagate_event
      ]_vars

(* C33 witness: a mouse-up has just been vetoed by the predicate of the     *)
(* innermost hovered drop target while an outer hovered element, whose drop *)
(* listener for the same type has no predicate, received the mouse-up but   *)
(* not the payload.                                                         *)
C33_Witness ==
    /\ last.kind = "up" /\ active_drag = None /\ last.propagate_event
    /\ DropCalls(last.calls) = <<>>
    /\ \E m, f \in Elems :
          /\ f < m
          /\ is_hovered(m, mouse_position) /\ is_hovered(f, mouse_position)
          /\ IsSome(Config(m).can_drop)
          /\ \E t \in DragTypes :
                /\ ListensFor(m, t) /\ ~Accepts(m, t)
                /\ ListensFor(f, t) /\ Accepts(f, t)
          /\ MouseUpCalls(last.calls, f) # <<>>

----------------------------------------------------------------------------
(* C34 (as stated): no dispatch of a mouse-up fails the `expect` of the     *)
(* drop closure on the active-drag slot.                                    *)
C34_AsStated == ~panicked

----------------------------------------------------------------------------
(* C35 (as stated): a prepaint that resolves a set_logical_scroll_top       *)
(* request leaves the horizontal component of the scroll offset at the      *)
(* value it had before, clamped.                                            *)
C35_AsStated ==
    (/\ scroll_last.op = "prepaint"
     /\ IsSome(scroll_obs.request)
     /\ Unwrap(scroll_obs.request).ix < Unwrap(scroll_obs.children))
    => scroll_offset.x =
           clamp_scroll_position(scroll_last.before, scroll_geom.bounds,
                                 scroll_geom.style, scroll_geom.content_size).x

----------------------------------------------------------------------------
(* C36 (as stated): every group lookup of an element's paint is made before *)
(* the element's own push, so that it refers to the nearest enclosing       *)
(* element declared in the group: the group-hover style is applied only if  *)
(* that enclosing element is hovered, and the hitbox the clicked-state      *)
(* closure captures for the group-active style is that enclosing element's. *)
C36_AsStated ==
    [][ \A e \in GroupElems :
          LET el == GroupTree[e]
          IN  (PaintedNow(e) /\ GroupHitbox(el))
              => /\ (IsSome(el.group_hover) /\ group_style'[e].hover)
                    => EnclosingHovered(e, Unwrap(el.group_hover))
                 /\ ( /\ group_obs'.op = "enter"
                      /\ IsSome(el.group_active)
                      /\ group_listener'[e].kind = "set" )
                    => group_listener'[e].hitbox
                           = NearestEnclosing(e, Unwrap(el.group_active))
      ]_vars

============================================================================
